---- MODULE Spec2Model ----
(***************************************************************************)
(* State-machine model of the userspace datapath of lib/dpif-netdev.c:     *)
(* ports, flow table, upcall queues, counters and the control operations,  *)
(* and of the GRE vports of datapath/vport-gre.c.                          *)
(*                                                                         *)
(* Spec is the serial semantics: every handler runs to completion before   *)
(* the next one starts.  The threaded specifications further down split    *)
(* the handlers at the points where the THREADED build drops its mutexes.  *)
(***************************************************************************)
EXTENDS Integers, Sequences, FiniteSets, TLC

(***************************************************************************)
(* Bounds of the model.  MAX_PORTS, MAX_FLOWS and MAX_QUEUE_LEN are the    *)
(* program's configuration parameters (256, 65536 and 128 in the source),  *)
(* scaled down; MAX_QUEUE_LEN stays a power of two.                        *)
(***************************************************************************)
MAX_PORTS == 3
MAX_FLOWS == 2
QueueLenLog2 == 1
MaxFrames == 3
MaxHandles == 2
MaxPortOps == 2
MaxNow == 2

MAX_QUEUE_LEN == 2 ^ QueueLenLog2
QUEUE_MASK == MAX_QUEUE_LEN - 1

(***************************************************************************)
(* Program constants.                                                      *)
(***************************************************************************)
N_QUEUES == 2
DPIF_UC_MISS == 0
DPIF_UC_ACTION == 1
OVSP_LOCAL == 0
ETH_HEADER_LEN == 14
OFPP_MAX == 65280
OFPP_LOCAL == 65534
ANY_PORT == -1
OFPP_NONE == 65535
HALF == 2 ^ 16

Queues == 0 .. (N_QUEUES - 1)
PortNos == 0 .. (MAX_PORTS - 1)

(***************************************************************************)
(* unsigned int: 32 bits, kept as two 16-bit halves so that the wrap at    *)
(* 2^32 is computed exactly.                                               *)
(***************************************************************************)
U32(h, l) == [hi |-> h, lo |-> l]
U32Zero == U32(0, 0)
U32Inc(u) ==
    IF u.lo = HALF - 1
    THEN U32((u.hi + 1) % HALF, 0)
    ELSE U32(u.hi, u.lo + 1)
U32Sub(a, b) ==
    LET borrow == IF a.lo < b.lo THEN 1 ELSE 0
    IN U32((a.hi - b.hi - borrow) % HALF, (a.lo - b.lo) % HALF)
U32Less(a, b) == a.hi < b.hi \/ (a.hi = b.hi /\ a.lo < b.lo)
\* x & QUEUE_MASK, for QUEUE_MASK = 2^k - 1 with k <= 16
U32AndMask(u) == u.lo % MAX_QUEUE_LEN
\* Counter values of a long-running datapath.  A queue index reaches
\* 2^32 - 2 after as many push/pop pairs; serial is odd whenever only the
\* LOCAL port is attached (creation, then add/del pairs), so it is 2^32 - 1.
U32Warm == U32(HALF - 1, HALF - 2)
SerialWarm == U32(HALF - 1, HALF - 1)

(***************************************************************************)
(* Device names, as character strings (choose_port scans them).            *)
(***************************************************************************)
DpName == <<"d">>
DevNames == { <<"p", "1">>, <<"e", "2", "x">>, <<"b", "r", "0">> }
Digits == {"0", "1", "2", "3", "4", "5", "6", "7", "8", "9"}
isdigit(c) == c \in Digits
DigitVal(c) ==
    CASE c = "0" -> 0 [] c = "1" -> 1 [] c = "2" -> 2 [] c = "3" -> 3
      [] c = "4" -> 4 [] c = "5" -> 5 [] c = "6" -> 6 [] c = "7" -> 7
      [] c = "8" -> 8 [] c = "9" -> 9
\* strtol(p, NULL, 10) on the suffix of name starting at position i: the
\* low 32 bits of the long it returns, which is all that the conversion
\* to int keeps of it (no name here has the 19 digits that saturate a
\* 64-bit long)
RECURSIVE strtolFrom(_, _, _)
strtolFrom(name, i, acc) ==
    IF i > Len(name) \/ ~isdigit(name[i])
    THEN acc
    ELSE LET lo == (acc.lo * 10) + DigitVal(name[i])
         IN strtolFrom(name, i + 1,
                       U32(((acc.hi * 10) + (lo \div HALF)) % HALF, lo % HALF))
strtol(name, i) == strtolFrom(name, i, U32Zero)
\* (int) (start_no + l) for 0 <= start_no < 2^16: the sum wraps to 32 bits
\* and is read as a signed number
IntOfSum(start_no, l) ==
    LET lo == l.lo + start_no
        hi == (l.hi + (lo \div HALF)) % HALF
    IN IF hi >= HALF \div 2
       THEN ((hi - HALF) * HALF) + (lo % HALF)
       ELSE (hi * HALF) + (lo % HALF)
strncmp_br(name) == Len(name) >= 2 /\ name[1] = "b" /\ name[2] = "r"

Classes == {"netdev", "dummy"}

(***************************************************************************)
(* Ports.  NullPort stands for a NULL struct dp_netdev_port pointer.       *)
(***************************************************************************)
NullPort == [port_no |-> -1, netdev |-> <<>>, type |-> "null"]
Port(no, dev, type) == [port_no |-> no, netdev |-> dev, type |-> type]

(***************************************************************************)
(* Packets, flow keys and their wire form.                                 *)
(***************************************************************************)
\* frames a device can deliver: size, header tuple, TCP flags byte
Frames ==
    { [size |-> 13, hdr |-> "h1", tcp |-> 0],
      [size |-> 64, hdr |-> "h1", tcp |-> 1],
      [size |-> 64, hdr |-> "h1", tcp |-> 2],
      [size |-> 60, hdr |-> "h2", tcp |-> 0] }
Packet(id, f) == [id |-> id, size |-> f.size, hdr |-> f.hdr, tcp |-> f.tcp]
NoPacket == [id |-> 0, size |-> 0, hdr |-> "none", tcp |-> 0]

\* bitwise OR of two flag bytes (two flag bits are modelled)
BitOr(a, b) ==
    (IF a % 2 = 1 \/ b % 2 = 1 THEN 1 ELSE 0)
    + (IF (a \div 2) % 2 = 1 \/ (b \div 2) % 2 = 1 THEN 2 ELSE 0)

FlowKey(in_port, hdr) == [in_port |-> in_port, hdr |-> hdr]
flow_extract(packet, in_port) == FlowKey(in_port, packet.hdr)
packet_get_tcp_flags(packet, key) == packet.tcp

\* serialized key: a netlink attribute stream, well formed or not
NlKey(ok, odp_in_port, hdr) ==
    [ok |-> ok, odp_in_port |-> odp_in_port, hdr |-> hdr]
NoNlKey == NlKey(FALSE, 0, "none")
odp_flow_key_from_flow(flow, odp_in_port) ==
    NlKey(TRUE, odp_in_port, flow.hdr)
odp_flow_key_to_flow(nl) ==
    IF nl.ok
    THEN [fit |-> "ODP_FIT_PERFECT", flow |-> FlowKey(nl.odp_in_port, nl.hdr)]
    ELSE [fit |-> "ODP_FIT_ERROR", flow |-> FlowKey(OFPP_NONE, "none")]

\* keys a controller can supply
NlKeyInputs ==
    { NlKey(TRUE, i, "h1") : i \in 1 .. MAX_PORTS - 1 }
    \cup { NlKey(TRUE, OFPP_NONE, "h1"),
           NlKey(FALSE, 1, "h1"), NlKey(TRUE, MAX_PORTS, "h1"),
           NlKey(TRUE, OFPP_MAX, "h1") }

InPortRangeBad(in_port) ==
    IF in_port < OFPP_MAX
    THEN in_port >= MAX_PORTS
    ELSE in_port # OFPP_LOCAL /\ in_port # OFPP_NONE

\* dpif_netdev_flow_from_nlattrs: [error, flow]
dpif_netdev_flow_from_nlattrs(nl) ==
    LET r == odp_flow_key_to_flow(nl)
    IN IF r.fit # "ODP_FIT_PERFECT"
       THEN [error |-> "EINVAL", flow |-> r.flow]
       ELSE IF InPortRangeBad(r.flow.in_port)
            THEN [error |-> "EINVAL", flow |-> r.flow]
            ELSE [error |-> "OK", flow |-> r.flow]

\* the flow keys that can be in the table: one hash chain per key
FlowKeys ==
    { dpif_netdev_flow_from_nlattrs(nl).flow :
        nl \in { k \in NlKeyInputs :
                    dpif_netdev_flow_from_nlattrs(k).error = "OK" } }

(***************************************************************************)
(* Actions: a stream of attributes.                                        *)
(***************************************************************************)
\* arg is a small integer payload, u32 a payload that needs all 32 bits,
\* nested the attributes a nested attribute holds
Attr(type, arg, ud) ==
    [type |-> type, arg |-> arg, userdata |-> ud, u32 |-> U32Zero,
     nested |-> <<>>]
Output(port) == Attr("OVS_ACTION_ATTR_OUTPUT", port, "none")
Userspace(ud) == Attr("OVS_ACTION_ATTR_USERSPACE", 0, ud)
Garbage == Attr("uninitialized", 0, "none")
PushVlan(tci) == Attr("OVS_ACTION_ATTR_PUSH_VLAN", tci, "none")
Probability(p) ==
    [Attr("OVS_SAMPLE_ATTR_PROBABILITY", 0, "none") EXCEPT !.u32 = p]
SampleActions(actions) ==
    [Attr("OVS_SAMPLE_ATTR_ACTIONS", 0, "none") EXCEPT !.nested = actions]
Sample(attrs) ==
    [Attr("OVS_ACTION_ATTR_SAMPLE", 0, "none") EXCEPT !.nested = attrs]
\* every attribute of the stream, those inside nested attributes included
RECURSIVE Flatten(_)
Flatten(attrs) ==
    IF attrs = <<>> THEN <<>>
    ELSE <<Head(attrs)>> \o Flatten(Head(attrs).nested)
            \o Flatten(Tail(attrs))
\* bytes an attribute takes in the stream (4-byte header, aligned payload)
RECURSIVE ActionsLen(_)
NlaLen(a) ==
    CASE a.type = "OVS_ACTION_ATTR_OUTPUT" -> 8
      [] a.type = "OVS_ACTION_ATTR_USERSPACE" ->
            IF a.userdata = "none" THEN 12 ELSE 24
      [] a.type \in {"OVS_ACTION_ATTR_SAMPLE", "OVS_SAMPLE_ATTR_ACTIONS"} ->
            4 + ActionsLen(a.nested)
      [] OTHER -> 8
ActionsLen(acts) ==
    IF acts = <<>> THEN 0 ELSE NlaLen(Head(acts)) + ActionsLen(Tail(acts))

(***************************************************************************)
(* Flow entries, upcalls, queues.                                          *)
(***************************************************************************)
Stats(packets, bytes, used, tcp) ==
    [n_packets |-> packets, n_bytes |-> bytes, used |-> used,
     tcp_flags |-> tcp]
ZeroStats == Stats(0, 0, 0, 0)
NoStats == Stats(-1, -1, -1, -1)

Upcall(type, key, userdata, packet) ==
    [type |-> type, key |-> key, userdata |-> userdata, packet |-> packet]
NoUpcall == Upcall(-1, NoNlKey, "none", NoPacket)
EmptyQueue(start) ==
    [upcalls |-> [i \in 0 .. QUEUE_MASK |-> NoUpcall],
     head |-> start, tail |-> start]

NullFlow ==
    [key |-> FlowKey(OFPP_NONE, "none"), used |-> -1, packet_count |-> -1,
     byte_count |-> -1, tcp_flags |-> 0, actions |-> <<>>,
     actions_len |-> -1]

VARIABLES
    registered,     \* the datapath is in dp_netdevs
    dp_class,       \* dp->class
    open_cnt,       \* dp->open_cnt
    destroyed,      \* dp->destroyed
    handles,        \* the struct dpif_netdev handles: open flag, dp_serial
    ports,          \* dp->ports[MAX_PORTS]
    port_list,      \* dp->port_list
    serial,         \* dp->serial
    flow_table,     \* dp->flow_table: hash chain per key, newest first
    queues,         \* dp->queues[N_QUEUES]
    pipe,           \* unread bytes in dp->pipe
    n_hit, n_missed, n_lost,
    tx,             \* frames handed to netdev_send, per device
    now,            \* time_msec()
    n_frames,       \* frames delivered so far (gives each packet its payload)
    n_port_ops,     \* successful port-set mutations so far
    last,           \* the last handler that ran, its arguments and result
    thr,            \* the handler each control thread is in, and its locals
    s3,             \* history of the injected frames since creation
    gre_ports,      \* vport-gre.c: gre_ports
    gre_protocol,   \* gre_protocol is registered with the GRE demultiplexer
    gre_vport,      \* vport_net.gre_vport of each network namespace
    gre64_vport,    \* vport_net.gre64_vport of each network namespace
    gre_live,       \* the vports allocated and not yet freed
    byte_order,     \* byte order of the host the module is built for
    gre_last,       \* the last GRE handler that ran, its arguments and result
    dp_netdevs,     \* the datapaths registered in the shash dp_netdevs
    dp_objs         \* the struct dp_netdev objects ever allocated

dpvars ==
    <<registered, dp_class, open_cnt, destroyed, handles, ports, port_list,
      serial, flow_table, queues, pipe, n_hit, n_missed, n_lost, tx>>
grevars ==
    <<gre_ports, gre_protocol, gre_vport, gre64_vport, gre_live, byte_order,
      gre_last>>
regvars == <<dp_netdevs, dp_objs>>
vars == <<dpvars, now, grevars, regvars, n_frames, n_port_ops, last, thr, s3>>

(***************************************************************************)
(* The GRE vport of datapath/vport-gre.c.  A vport is the record of its    *)
(* name, type and namespace; NULL is the empty slot of vport_net.  A       *)
(* 32-bit or 64-bit object is the tuple of its bytes in memory order, so   *)
(* that a __be32 or __be64 reads most significant byte first.              *)
(***************************************************************************)
N_NETS == 2
Nets == 1 .. N_NETS
ByteOrders == {"__BIG_ENDIAN", "__LITTLE_ENDIAN"}
NULL == [name |-> "", type |-> "none", net |-> 0]
Vport(name, type, net) == [name |-> name, type |-> type, net |-> net]
Zero32 == <<0, 0, 0, 0>>
Zero64 == Zero32 \o Zero32
NoTunKey == [present |-> FALSE, tun_id |-> Zero64, tun_flags |-> {}]
TunKey(tun_id, tun_flags) ==
    [present |-> TRUE, tun_id |-> tun_id, tun_flags |-> tun_flags]
\* The GRE header of RFC 2784/2890: the key and sequence fields are on the
\* wire only under their flags.
NoFrame == [flags |-> {}, proto |-> "none", key |-> <<>>, seq |-> <<>>]
GreLast(op, ret) ==
    [op |-> op, ret |-> ret, net |-> 0, vport |-> NULL, name |-> "",
     tun_key |-> NoTunKey, frame |-> NoFrame, rcv_key |-> NoTunKey,
     ports |-> 0, protocol |-> FALSE, register |-> "none",
     alloc |-> "none", df |-> FALSE, sent_by |-> "none"]
InitGre(order) ==
    /\ gre_ports = 0
    /\ gre_protocol = FALSE
    /\ gre_vport = [n \in Nets |-> NULL]
    /\ gre64_vport = [n \in Nets |-> NULL]
    /\ gre_live = {}
    /\ byte_order = order
    /\ gre_last = GreLast("init", "OK")

Put(key, flags, actions, want_stats) ==
    [key |-> key, flags |-> flags, actions |-> actions,
     want_stats |-> want_stats]
DpStats(n_flows, hit, missed, lost) ==
    [n_flows |-> n_flows, n_hit |-> hit, n_missed |-> missed,
     n_lost |-> lost]
\* the control threads, and a thread that is in no handler
Threads == {1, 2}
Idle ==
    [pc |-> "idle", put |-> Put(NoNlKey, {}, <<>>, FALSE),
     key |-> FlowKey(OFPP_NONE, "none"), flow |-> 0, n_flows |-> 0,
     port |-> NullPort,
     \* the struct dp_netdev_port_state of the thread's port dump; the
     \* ports the dump has returned so far, and the ports that were there
     \* at dump_start and at every dump_next since
     state |-> [port_no |-> 0, name |-> <<>>], dumped |-> <<>>,
     stable |-> {},
     \* the struct dpif_dp_stats a get_stats is filling in, and the values
     \* the four counters have had together since the call began
     stats |-> DpStats(0, 0, 0, 0), seen |-> {},
     \* the queue and the q->head of the slot an output_userspace has
     \* taken, and the record it writes there
     queue_no |-> 0, head |-> U32Zero, upcall |-> NoUpcall,
     \* the I/O worker: the ports whose descriptors are in fds, in order;
     \* the entries poll has marked POLLIN; the worker's place in the port
     \* list; the entries it has dispatched in this iteration
     fds |-> <<>>, revents |-> {}, node |-> 0, served |-> {},
     \* the frame a port_input is handling, and the counters of a flow as
     \* the thread has read them
     packet |-> NoPacket, flow_stats |-> NoStats]

AllDevs == DevNames \cup {DpName}
\* A word that is not NULL, read past the end of dp->ports and taken for a
\* port, and the netdev such a pointer leads to
WildDev == <<"?">>
WildPort == Port(-1, WildDev, "wild")
\* The action list has an OUTPUT to a port number that is no index of
\* dp->ports; what the read past the array can then return
OutOfRange(actions) ==
    \E i \in 1 .. Len(Flatten(actions)) :
       /\ Flatten(actions)[i].type = "OVS_ACTION_ATTR_OUTPUT"
       /\ Flatten(actions)[i].arg >= MAX_PORTS
BeyondReads(actions) ==
    IF OutOfRange(actions) THEN {NullPort, WildPort} ELSE {NullPort}
\* random_uint32(): the draws at the edges of the range and next to them
U32Max == U32(HALF - 1, HALF - 1)
Draws == { U32Zero, U32(0, 1), U32(HALF - 1, HALF - 2), U32Max }
\* one draw for each PROBABILITY attribute the actions can come to
RandomDraws(actions) ==
    [1 .. Cardinality({ i \in 1 .. Len(Flatten(actions)) :
                          Flatten(actions)[i].type =
                              "OVS_SAMPLE_ATTR_PROBABILITY" }) -> Draws]
HandleIds == 1 .. MaxHandles
ClosedHandle == [open |-> FALSE, dp_serial |-> U32Zero]

Last(op, ret) ==
    [op |-> op, ret |-> ret, key |-> NoNlKey, flags |-> {},
     actions |-> <<>>, actions_len |-> 0, want_stats |-> FALSE,
     stats |-> NoStats, upcall |-> NoUpcall, port_no |-> -1, pushes |-> <<>>,
     handle |-> 0, class |-> "none", create |-> FALSE, dev_error |-> "OK",
     devname |-> <<>>, port_nop |-> ANY_PORT, random |-> <<>>,
     packet |-> NoPacket, dp_stats |-> DpStats(0, 0, 0, 0), seen |-> {}]
S3(phase, sent, n_got) == [phase |-> phase, sent |-> sent, n_got |-> n_got]
S3Off == S3("off", <<>>, 0)

(***************************************************************************)
(* Flow table primitives.                                                  *)
(***************************************************************************)
EmptyTable == [k \in FlowKeys |-> <<>>]
RECURSIVE SumLen(_, _)
SumLen(table, keys) ==
    IF keys = {} THEN 0
    ELSE LET k == CHOOSE x \in keys : TRUE
         IN Len(table[k]) + SumLen(table, keys \ {k})
hmap_count(table) == SumLen(table, DOMAIN table)
\* dp_netdev_lookup_flow: first entry of the key's chain, or NULL
dp_netdev_lookup_flow(table, key) ==
    IF key \in DOMAIN table /\ table[key] # <<>>
    THEN Head(table[key])
    ELSE NullFlow
hmap_insert(table, flow) ==
    [table EXCEPT ![flow.key] = <<flow>> \o @]
\* hmap_remove of the entry dp_netdev_lookup_flow returned
hmap_remove(table, key) ==
    [table EXCEPT ![key] = Tail(@)]
get_dpif_flow_stats(flow) ==
    Stats(flow.packet_count, flow.byte_count, flow.used, flow.tcp_flags)
clear_stats(flow) ==
    [flow EXCEPT !.used = 0, !.packet_count = 0, !.byte_count = 0,
                 !.tcp_flags = 0]
\* The memory at flow->actions, read or kept as far as size bytes: the
\* attributes that lie wholly inside, then bytes nobody has written.
RECURSIVE Fit(_, _)
Fit(buf, size) ==
    IF buf = <<>> \/ NlaLen(Head(buf)) > size THEN <<>>
    ELSE <<Head(buf)>> \o Fit(Tail(buf), size - NlaLen(Head(buf)))
Uninit(n) == [i \in 1 .. (n + 7) \div 8 |-> Garbage]
Bytes(buf, size) ==
    LET kept == Fit(buf, size) IN kept \o Uninit(size - ActionsLen(kept))
\* the three statements of set_flow_actions
xrealloc(flow, actions_len) ==
    [flow EXCEPT !.actions = Bytes(@, actions_len)]
set_actions_len(flow, actions_len) ==
    [flow EXCEPT !.actions_len = actions_len]
memcpy(flow, actions) == [flow EXCEPT !.actions = actions]
set_flow_actions(flow, actions) ==
    LET actions_len == ActionsLen(actions)
    IN memcpy(set_actions_len(xrealloc(flow, actions_len), actions_len),
              actions)
ofpbuf_clone_data(buf, size) == Bytes(buf, size)
\* xzalloc'ed flow with its key and actions set
NewFlow(key, actions) ==
    set_flow_actions(
        [key |-> key, used |-> 0, packet_count |-> 0, byte_count |-> 0,
         tcp_flags |-> 0, actions |-> <<>>, actions_len |-> 0], actions)
\* a dp_netdev_flow_used that stores the packet's TCP flags over the flow's
dp_netdev_flow_used_overwrite(flow, packet, t) ==
    [flow EXCEPT !.used = t,
                 !.packet_count = @ + 1,
                 !.byte_count = @ + packet.size,
                 !.tcp_flags = packet_get_tcp_flags(packet, flow.key)]
dp_netdev_flow_used(flow, packet, t) ==
    [flow EXCEPT !.used = t,
                 !.packet_count = @ + 1,
                 !.byte_count = @ + packet.size,
                 !.tcp_flags = BitOr(@, packet_get_tcp_flags(packet, flow.key))]

(***************************************************************************)
(* Upcall queues and the action engine.  These work on the part of the     *)
(* datapath a packet can change: st = [queues, pipe, n_lost, tx, pushes],  *)
(* pushes being the results of the dp_netdev_output_userspace calls made.  *)
(***************************************************************************)
QueueLen(q) == U32Sub(q.head, q.tail)
\* The pipe holds many more bytes than the queues have slots (65536 against
\* 256 on Linux); here it holds as many as there are slots.
PIPE_CAPACITY == N_QUEUES * MAX_QUEUE_LEN
\* a write that leaves the pipe as it is
WritePipeNever(n) == n
\* write(dp->pipe[1], &c, 1) on the nonblocking pipe: fails when it is full
WritePipe(n) == IF n < PIPE_CAPACITY THEN n + 1 ELSE n
QueueHasRoomOffByOne(q) ==
    LET d == QueueLen(q) IN d.hi = 0 /\ d.lo <= MAX_QUEUE_LEN
QueueHasRoom(q) ==
    LET d == QueueLen(q) IN d.hi = 0 /\ d.lo < MAX_QUEUE_LEN
PushResult(queue_no, ret) == [q |-> queue_no, ret |-> ret]

\* the same without the n_lost++ of the overflow branch
dp_netdev_output_userspace_uncounted(st, packet, queue_no, flow, userdata) ==
    LET q == st.queues[queue_no]
        u == Upcall(queue_no, odp_flow_key_from_flow(flow, flow.in_port),
                    userdata, packet)
    IN IF QueueHasRoom(q)
       THEN [st EXCEPT
                !.queues[queue_no] =
                    [upcalls |-> [q.upcalls EXCEPT ![U32AndMask(q.head)] = u],
                     head |-> U32Inc(q.head), tail |-> q.tail],
                !.pipe = WritePipe(@),
                !.pushes = Append(@, PushResult(queue_no, "OK"))]
       ELSE [st EXCEPT
                !.pushes = Append(@, PushResult(queue_no, "ENOBUFS"))]

\* the same counting as lost only the upcalls dropped from the MISS queue
dp_netdev_output_userspace_misses(st, packet, queue_no, flow, userdata) ==
    LET q == st.queues[queue_no]
        u == Upcall(queue_no, odp_flow_key_from_flow(flow, flow.in_port),
                    userdata, packet)
    IN IF QueueHasRoom(q)
       THEN [st EXCEPT
                !.queues[queue_no] =
                    [upcalls |-> [q.upcalls EXCEPT ![U32AndMask(q.head)] = u],
                     head |-> U32Inc(q.head), tail |-> q.tail],
                !.pipe = WritePipe(@),
                !.pushes = Append(@, PushResult(queue_no, "OK"))]
       ELSE [st EXCEPT
                !.n_lost = IF queue_no = DPIF_UC_MISS THEN @ + 1 ELSE @,
                !.pushes = Append(@, PushResult(queue_no, "ENOBUFS"))]

dp_netdev_output_userspace(st, packet, queue_no, flow, userdata) ==
    LET q == st.queues[queue_no]
        u == Upcall(queue_no, odp_flow_key_from_flow(flow, flow.in_port),
                    userdata, packet)
    IN IF QueueHasRoom(q)
       THEN [st EXCEPT
                !.queues[queue_no] =
                    [upcalls |-> [q.upcalls EXCEPT ![U32AndMask(q.head)] = u],
                     head |-> U32Inc(q.head), tail |-> q.tail],
                !.pipe = WritePipe(@),
                !.pushes = Append(@, PushResult(queue_no, "OK"))]
       ELSE [st EXCEPT
                !.n_lost = @ + 1,
                !.pushes = Append(@, PushResult(queue_no, "ENOBUFS"))]

\* dp->ports[out_port] is read without a bounds check: past the end of
\* the array the read returns whatever lies there (st.beyond)
dp_netdev_output_port(st, prts, packet, out_port) ==
    LET p == IF out_port \in DOMAIN prts THEN prts[out_port] ELSE st.beyond
    IN IF p # NullPort
       THEN [st EXCEPT !.tx[p.netdev] = @ + 1]
       ELSE st

\* The loop of dp_netdev_sample over the nested attributes: a PROBABILITY
\* attribute takes the next draw and returns from dp_netdev_sample when
\* random_uint32() >= probability; an ACTIONS attribute is remembered.
RECURSIVE SampleLoop(_, _, _)
SampleLoop(attrs, random, subactions) ==
    IF attrs = <<>>
    THEN [returned |-> FALSE, subactions |-> subactions, random |-> random]
    ELSE LET a == Head(attrs)
         IN IF a.type = "OVS_SAMPLE_ATTR_PROBABILITY"
            THEN IF ~U32Less(Head(random), a.u32)
                 THEN [returned |-> TRUE, subactions |-> subactions,
                       random |-> Tail(random)]
                 ELSE SampleLoop(Tail(attrs), Tail(random), subactions)
            ELSE SampleLoop(Tail(attrs), random, a.nested)

\* eth_push_vlan: a 4-byte 802.1Q header is inserted into the buffer
eth_push_vlan(packet, tci) == [packet EXCEPT !.size = @ + 4]

RECURSIVE dp_netdev_execute_actions(_, _, _, _, _)
dp_netdev_sample(st, prts, packet, key, action) ==
    LET r == SampleLoop(action.nested, st.random, <<>>)
        st1 == [st EXCEPT !.random = r.random]
    IN IF r.returned THEN st1
       ELSE dp_netdev_execute_actions(st1, prts, packet, key, r.subactions)

\* st.packet is the buffer the actions work on, as they have left it
dp_netdev_execute_actions(st, prts, packet, key, actions) ==
    IF actions = <<>> THEN [st EXCEPT !.packet = packet]
    ELSE LET a == Head(actions)
             st0 == [st EXCEPT !.packet = packet]
             st1 == CASE a.type = "OVS_ACTION_ATTR_OUTPUT" ->
                            dp_netdev_output_port(st0, prts, packet, a.arg)
                      [] a.type = "OVS_ACTION_ATTR_USERSPACE" ->
                            dp_netdev_output_userspace(st0, packet,
                                DPIF_UC_ACTION, key, a.userdata)
                      [] a.type = "OVS_ACTION_ATTR_PUSH_VLAN" ->
                            [st0 EXCEPT
                                !.packet = eth_push_vlan(packet, a.arg)]
                      [] a.type = "OVS_ACTION_ATTR_SAMPLE" ->
                            dp_netdev_sample(st0, prts, packet, key, a)
         IN dp_netdev_execute_actions(st1, prts, st1.packet, key,
                                      Tail(actions))

PacketState(d) ==
    [queues |-> d.queues, pipe |-> d.pipe, n_lost |-> d.n_lost, tx |-> d.tx,
     pushes |-> <<>>, beyond |-> d.beyond, random |-> d.random,
     packet |-> NoPacket]
WithPacketState(d, st) ==
    [d EXCEPT !.queues = st.queues, !.pipe = st.pipe, !.n_lost = st.n_lost,
              !.tx = st.tx]

(***************************************************************************)
(* The datapath as one record, and its initial states.                     *)
(***************************************************************************)
Dp ==
    [registered |-> registered, dp_class |-> dp_class, open_cnt |-> open_cnt,
     destroyed |-> destroyed, handles |-> handles, ports |-> ports,
     port_list |-> port_list, serial |-> serial, flow_table |-> flow_table,
     queues |-> queues, pipe |-> pipe, n_hit |-> n_hit,
     n_missed |-> n_missed, n_lost |-> n_lost, tx |-> tx,
     beyond |-> NullPort, random |-> <<>>]
SetDp(d) ==
    /\ registered' = d.registered
    /\ dp_class' = d.dp_class
    /\ open_cnt' = d.open_cnt
    /\ destroyed' = d.destroyed
    /\ handles' = d.handles
    /\ ports' = d.ports
    /\ port_list' = d.port_list
    /\ serial' = d.serial
    /\ flow_table' = d.flow_table
    /\ queues' = d.queues
    /\ pipe' = d.pipe
    /\ n_hit' = d.n_hit
    /\ n_missed' = d.n_missed
    /\ n_lost' = d.n_lost
    /\ tx' = d.tx

\* no datapath: what xzalloc and the initialisers of create_dp_netdev give
NoDp ==
    [registered |-> FALSE, dp_class |-> "netdev", open_cnt |-> 0,
     destroyed |-> FALSE, handles |-> [h \in HandleIds |-> ClosedHandle],
     ports |-> [i \in PortNos |-> NullPort], port_list |-> <<>>,
     serial |-> U32Zero, flow_table |-> EmptyTable,
     queues |-> [i \in Queues |-> EmptyQueue(U32Zero)], pipe |-> 0,
     n_hit |-> 0, n_missed |-> 0, n_lost |-> 0,
     tx |-> [n \in AllDevs \cup {WildDev} |-> 0], beyond |-> NullPort,
     random |-> <<>>]

LocalPort == Port(OVSP_LOCAL, DpName, "internal")
\* A datapath that has run for long: one open handle, the LOCAL port only,
\* the ACTION queue drained after 2^32 - 2 upcalls, serial about to wrap.
WarmDp ==
    [NoDp EXCEPT
        !.registered = TRUE, !.dp_class = "dummy", !.open_cnt = 1,
        !.handles[1] = [open |-> TRUE, dp_serial |-> SerialWarm],
        !.ports[OVSP_LOCAL] = LocalPort, !.port_list = <<LocalPort>>,
        !.serial = SerialWarm,
        !.queues[DPIF_UC_ACTION] = EmptyQueue(U32Warm)]

\* The registry of datapaths.  A struct dp_netdev is the record of what the
\* worker and the life cycle touch: whether it is allocated, live or freed,
\* its port list, the holders of its two mutexes (0 when unlocked) and its
\* reference count.  poll_fd is 0 for NULL and k for &fds[k - 1].
N_DPS == 2
DpIds == 1 .. N_DPS
NoObj ==
    [state |-> "none", port_list |-> <<>>, port_list_mutex |-> 0,
     table_mutex |-> 0, open_cnt |-> 0, destroyed |-> FALSE]
RegPort(port_no, poll_fd) == [port_no |-> port_no, poll_fd |-> poll_fd]
InitRegistry ==
    /\ dp_netdevs = {}
    /\ dp_objs = [d \in DpIds |-> NoObj]

InitIdle ==
    /\ now = 1
    /\ n_frames = 0
    /\ n_port_ops = 0
    /\ last = Last("init", "OK")
    /\ thr = [t \in Threads |-> Idle]
    /\ InitRegistry

InitRest ==
    /\ InitIdle
    /\ InitGre("__LITTLE_ENDIAN")

InitDp(d) ==
    /\ registered = d.registered
    /\ dp_class = d.dp_class
    /\ open_cnt = d.open_cnt
    /\ destroyed = d.destroyed
    /\ handles = d.handles
    /\ ports = d.ports
    /\ port_list = d.port_list
    /\ serial = d.serial
    /\ flow_table = d.flow_table
    /\ queues = d.queues
    /\ pipe = d.pipe
    /\ n_hit = d.n_hit
    /\ n_missed = d.n_missed
    /\ n_lost = d.n_lost
    /\ tx = d.tx

(***************************************************************************)
(* Ports.                                                                  *)
(***************************************************************************)
RECURSIVE FirstDigit(_, _)
\* position of the first digit of name at or after i, 0 if none
FirstDigit(name, i) ==
    IF i > Len(name) THEN 0
    ELSE IF isdigit(name[i]) THEN i ELSE FirstDigit(name, i + 1)
\* MAX_PORTS is a compile-time constant: the operators that depend on it
\* take it as max_ports, so that they can be applied to a ports array long
\* enough for choose_port's offset of 100 to land inside it.
\* for (port_no = 1; port_no < MAX_PORTS; port_no++): the first free slot
\* at or after port_no, -1 if the loop runs out
LowestFree(max_ports, prts, port_no) ==
    LET free == { i \in port_no .. max_ports - 1 : prts[i] = NullPort }
    IN IF free = {} THEN -1
       ELSE CHOOSE i \in free : \A j \in free : i <= j
choose_port_in(max_ports, d, name) ==
    LET start_no == IF strncmp_br(name) THEN 100 ELSE 0
        p == FirstDigit(name, 1)
        port_no == IF p = 0 THEN -1 ELSE IntOfSum(start_no, strtol(name, p))
    IN IF d.dp_class # "netdev" /\ p # 0 /\ port_no > 0
          /\ port_no < max_ports /\ d.ports[port_no] = NullPort
       THEN port_no
       ELSE LowestFree(max_ports, d.ports, 1)
choose_port(d, name) == choose_port_in(MAX_PORTS, d, name)

\* do_add_port; dev_error is what netdev_open/listen/turn_flags_on return
\* list_push_back, done under port_list_mutex
do_add_port_link(d, port) == [d EXCEPT !.port_list = Append(@, port)]
\* the same statements without dp->serial++
do_add_port_publish_quiet(d, port) ==
    [d EXCEPT !.ports[port.port_no] = port]
\* dp->ports[port_no] = port; dp->serial++, done after the unlock
do_add_port_publish(d, port) ==
    [d EXCEPT !.ports[port.port_no] = port, !.serial = U32Inc(@)]
do_add_port(d, devname, type, port_no, dev_error) ==
    IF dev_error # "OK"
    THEN [d |-> d, error |-> dev_error]
    ELSE LET port == Port(port_no, devname, type)
         IN [d |-> do_add_port_publish(do_add_port_link(d, port), port),
             error |-> "OK"]

\* dpif_netdev_port_add; port_nop = ANY_PORT stands for UINT32_MAX
\* the part of dpif_netdev_port_add that settles the port number
port_add_number_in(max_ports, d, devname, port_nop) ==
    IF port_nop # ANY_PORT /\ port_nop >= max_ports
    THEN [error |-> "EFBIG", port_no |-> port_nop]
    ELSE IF port_nop # ANY_PORT /\ d.ports[port_nop] # NullPort
    THEN [error |-> "EBUSY", port_no |-> port_nop]
    ELSE LET port_no == IF port_nop # ANY_PORT THEN port_nop
                        ELSE choose_port_in(max_ports, d, devname)
         IN IF port_no >= 0
            THEN [error |-> "OK", port_no |-> port_no]
            ELSE [error |-> "EFBIG", port_no |-> port_nop]
port_add_number(d, devname, port_nop) ==
    port_add_number_in(MAX_PORTS, d, devname, port_nop)
dpif_netdev_port_add_in(max_ports, d, devname, port_nop, dev_error) ==
    LET n == port_add_number_in(max_ports, d, devname, port_nop)
    IN IF n.error # "OK"
       THEN [d |-> d, error |-> n.error, port_no |-> n.port_no]
       ELSE LET r == do_add_port(d, devname, "dummy", n.port_no, dev_error)
            IN [d |-> r.d, error |-> r.error, port_no |-> n.port_no]
dpif_netdev_port_add(d, devname, port_nop, dev_error) ==
    dpif_netdev_port_add_in(MAX_PORTS, d, devname, port_nop, dev_error)

RECURSIVE get_port_by_name(_, _)
\* the first port of the list with this device name: [error, port]
get_port_by_name(list, devname) ==
    IF list = <<>> THEN [error |-> "ENOENT", port |-> NullPort]
    ELSE IF Head(list).netdev = devname
         THEN [error |-> "OK", port |-> Head(list)]
         ELSE get_port_by_name(Tail(list), devname)

get_port_by_number(d, port_no) ==
    IF ~(port_no < MAX_PORTS)
    THEN [error |-> "EINVAL", port |-> NullPort]
    ELSE [error |-> IF d.ports[port_no] # NullPort THEN "OK" ELSE "ENOENT",
          port |-> d.ports[port_no]]

RECURSIVE list_remove(_, _)
\* unlink the first node of the list that is this port
list_remove(list, port) ==
    IF list = <<>> THEN <<>>
    ELSE IF Head(list) = port THEN Tail(list)
         ELSE <<Head(list)>> \o list_remove(Tail(list), port)

do_del_port(d, port_no) ==
    LET g == get_port_by_number(d, port_no)
    IN IF g.error # "OK"
       THEN [d |-> d, error |-> g.error]
       ELSE [d |-> [d EXCEPT !.port_list = list_remove(@, g.port),
                             !.ports[g.port.port_no] = NullPort,
                             !.serial = U32Inc(@)],
             error |-> "OK"]

\* a port_del without the check for the LOCAL port
dpif_netdev_port_del_any(d, port_no) == do_del_port(d, port_no)
dpif_netdev_port_del(d, port_no) ==
    IF port_no = OVSP_LOCAL
    THEN [d |-> d, error |-> "EINVAL"]
    ELSE do_del_port(d, port_no)

\* a port_poll that reports the change and forgets to remember it
dpif_netdev_port_poll_forgetful(d, h) ==
    IF d.handles[h].dp_serial # d.serial
    THEN [d |-> d, error |-> "ENOBUFS"]
    ELSE [d |-> d, error |-> "EAGAIN"]
dpif_netdev_port_poll(d, h) ==
    IF d.handles[h].dp_serial # d.serial
    THEN [d |-> [d EXCEPT !.handles[h].dp_serial = d.serial],
          error |-> "ENOBUFS"]
    ELSE [d |-> d, error |-> "EAGAIN"]

\* dpif_netdev_port_dump_start: the xzalloc'ed state
dpif_netdev_port_dump_start == [port_no |-> 0, name |-> <<>>]
\* the first occupied slot at or after port_no, MAX_PORTS if there is none
NextPortFrom(d, port_no) ==
    LET found == { i \in port_no .. MAX_PORTS - 1 : d.ports[i] # NullPort }
    IN IF found = {} THEN MAX_PORTS
       ELSE CHOOSE i \in found : \A j \in found : i <= j
\* a dump_next that resumes at the slot it has just returned
dpif_netdev_port_dump_next_again(d, state) ==
    LET port_no == NextPortFrom(d, state.port_no)
    IN IF port_no < MAX_PORTS
       THEN [state |-> [port_no |-> port_no,
                        name |-> d.ports[port_no].netdev],
             error |-> "OK", port |-> d.ports[port_no]]
       ELSE [state |-> state, error |-> "EOF", port |-> NullPort]
dpif_netdev_port_dump_next(d, state) ==
    LET port_no == NextPortFrom(d, state.port_no)
    IN IF port_no < MAX_PORTS
       THEN [state |-> [port_no |-> port_no + 1,
                        name |-> d.ports[port_no].netdev],
             error |-> "OK", port |-> d.ports[port_no]]
       ELSE [state |-> state, error |-> "EOF", port |-> NullPort]

(***************************************************************************)
(* Datapath lifecycle.                                                     *)
(***************************************************************************)
\* create_dp_netdev, followed by nothing: the datapath with its LOCAL port
create_dp_netdev(d, class, dev_error) ==
    LET d0 == [NoDp EXCEPT !.dp_class = class, !.tx = d.tx]
        r == do_add_port(d0, DpName, "internal", OVSP_LOCAL, dev_error)
    IN IF r.error # "OK"
       THEN [d |-> d, error |-> r.error]
       ELSE [d |-> [r.d EXCEPT !.registered = TRUE], error |-> "OK"]

\* a create_dpif_netdev that does not count the handle
create_dpif_netdev_uncounted(d, h) ==
    [d EXCEPT !.handles[h] = [open |-> TRUE, dp_serial |-> d.serial]]
create_dpif_netdev(d, h) ==
    [d EXCEPT !.open_cnt = @ + 1,
              !.handles[h] = [open |-> TRUE, dp_serial |-> d.serial]]

dpif_netdev_open(d, h, class, create, dev_error) ==
    IF ~d.registered
    THEN IF ~create
         THEN [d |-> d, error |-> "ENODEV"]
         ELSE LET r == create_dp_netdev(d, class, dev_error)
              IN IF r.error # "OK"
                 THEN [d |-> d, error |-> r.error]
                 ELSE [d |-> create_dpif_netdev(r.d, h), error |-> "OK"]
    ELSE IF d.dp_class # class
         THEN [d |-> d, error |-> "EINVAL"]
         ELSE IF create
              THEN [d |-> d, error |-> "EEXIST"]
              ELSE [d |-> create_dpif_netdev(d, h), error |-> "OK"]

\* dp_netdev_free: flows flushed, ports deleted, queues purged, memory freed
dp_netdev_free(d) == [NoDp EXCEPT !.tx = d.tx]

\* a close that frees the datapath on the last close, destroyed or not
dpif_netdev_close_eager(d, h) ==
    LET d1 == [d EXCEPT !.open_cnt = @ - 1, !.handles[h] = ClosedHandle]
    IN IF d1.open_cnt = 0 THEN dp_netdev_free(d1) ELSE d1
dpif_netdev_close(d, h) ==
    LET d1 == [d EXCEPT !.open_cnt = @ - 1, !.handles[h] = ClosedHandle]
    IN IF d1.open_cnt = 0 /\ d1.destroyed
       THEN dp_netdev_free(d1)
       ELSE d1

dpif_netdev_destroy(d) == [d EXCEPT !.destroyed = TRUE]

(***************************************************************************)
(* Flow operations.                                                        *)
(***************************************************************************)
dp_netdev_flow_add(d, key, actions) ==
    [d EXCEPT !.flow_table = hmap_insert(@, NewFlow(key, actions))]

\* n_flows < MAX_FLOWS, on the count read under the table mutex
TableHasRoomOffByOne(n_flows) == n_flows <= MAX_FLOWS
TableHasRoom(n_flows) == n_flows < MAX_FLOWS

\* the MODIFY branch of dpif_netdev_flow_put on the looked-up flow: the new
\* contents of the flow and what *put->stats receives
ModifyResultClearFirst(flow, put) ==
    LET f1 == set_flow_actions(flow, put.actions)
        f2 == IF "ZERO_STATS" \in put.flags THEN clear_stats(f1) ELSE f1
    IN [flow |-> f2,
        stats |-> IF put.want_stats THEN get_dpif_flow_stats(f2)
                  ELSE NoStats]
\* memcpy, then the stats and the ZERO_STATS of the MODIFY branch
ModifyTail(flow, put) ==
    LET f1 == memcpy(flow, put.actions)
        st == IF put.want_stats THEN get_dpif_flow_stats(f1) ELSE NoStats
        f2 == IF "ZERO_STATS" \in put.flags THEN clear_stats(f1) ELSE f1
    IN [flow |-> f2, stats |-> st]
ModifyResult(flow, put) ==
    LET actions_len == ActionsLen(put.actions)
    IN ModifyTail(set_actions_len(xrealloc(flow, actions_len), actions_len),
                  put)

dpif_netdev_flow_put(d, put) ==
    LET k == dpif_netdev_flow_from_nlattrs(put.key)
        flow == dp_netdev_lookup_flow(d.flow_table, k.flow)
    IN IF k.error # "OK"
       THEN [d |-> d, error |-> k.error, stats |-> NoStats]
       ELSE IF flow = NullFlow
       THEN IF "CREATE" \in put.flags
            THEN IF TableHasRoom(hmap_count(d.flow_table))
                 THEN [d |-> dp_netdev_flow_add(d, k.flow, put.actions),
                       error |-> "OK",
                       stats |-> IF put.want_stats THEN ZeroStats
                                 ELSE NoStats]
                 ELSE [d |-> d, error |-> "EFBIG", stats |-> NoStats]
            ELSE [d |-> d, error |-> "ENOENT", stats |-> NoStats]
       ELSE IF "MODIFY" \in put.flags
            THEN LET m == ModifyResult(flow, put)
                 IN [d |-> [d EXCEPT !.flow_table[k.flow] =
                                        <<m.flow>> \o Tail(@)],
                     error |-> "OK", stats |-> m.stats]
            ELSE [d |-> d, error |-> "EEXIST", stats |-> NoStats]

dpif_netdev_flow_get(d, nlkey) ==
    LET k == dpif_netdev_flow_from_nlattrs(nlkey)
        flow == dp_netdev_lookup_flow(d.flow_table, k.flow)
    IN IF k.error # "OK"
       THEN [error |-> k.error, stats |-> NoStats, actions |-> <<>>,
             actions_len |-> 0]
       ELSE IF flow = NullFlow
            THEN [error |-> "ENOENT", stats |-> NoStats, actions |-> <<>>,
                  actions_len |-> 0]
            ELSE [error |-> "OK", stats |-> get_dpif_flow_stats(flow),
                  actions |-> ofpbuf_clone_data(flow.actions,
                                                flow.actions_len),
                  actions_len |-> flow.actions_len]

dp_netdev_free_flow(d, key) ==
    [d EXCEPT !.flow_table = hmap_remove(@, key)]

dpif_netdev_flow_del(d, nlkey, want_stats) ==
    LET k == dpif_netdev_flow_from_nlattrs(nlkey)
        flow == dp_netdev_lookup_flow(d.flow_table, k.flow)
    IN IF k.error # "OK"
       THEN [d |-> d, error |-> k.error, stats |-> NoStats]
       ELSE IF flow # NullFlow
            THEN [d |-> dp_netdev_free_flow(d, k.flow), error |-> "OK",
                  stats |-> IF want_stats THEN get_dpif_flow_stats(flow)
                            ELSE NoStats]
            ELSE [d |-> d, error |-> "ENOENT", stats |-> NoStats]

dp_netdev_flow_flush(d) == [d EXCEPT !.flow_table = EmptyTable]

(***************************************************************************)
(* Upcall delivery.                                                        *)
(***************************************************************************)
\* find_nonempty_queue: the queue's index, N_QUEUES for NULL
RECURSIVE FindFrom(_, _)
FindFrom(qs, i) ==
    IF i >= N_QUEUES THEN N_QUEUES
    ELSE IF qs[i].head # qs[i].tail THEN i ELSE FindFrom(qs, i + 1)
RECURSIVE FindDownFrom(_, _)
FindDownFrom(qs, i) ==
    IF i < 0 THEN N_QUEUES
    ELSE IF qs[i].head # qs[i].tail THEN i ELSE FindDownFrom(qs, i - 1)
find_nonempty_queue_backwards(d) == FindDownFrom(d.queues, N_QUEUES - 1)
find_nonempty_queue(d) == FindFrom(d.queues, 0)

\* the slot recv and purge take: &q->upcalls[q->tail & QUEUE_MASK]
QueueFrontLifo(q) == q.upcalls[U32AndMask(U32Sub(q.head, U32(0, 1)))]
QueueFront(q) == q.upcalls[U32AndMask(q.tail)]
\* q->upcalls[q->tail++ & QUEUE_MASK]; the slot gives up its buffer
PopQueue(q) ==
    [upcalls |-> [q.upcalls EXCEPT ![U32AndMask(q.tail)] = NoUpcall],
     head |-> q.head, tail |-> U32Inc(q.tail)]
\* read(dp->pipe[0], &c, 1) on the nonblocking pipe
ReadPipe(n) == IF n > 0 THEN n - 1 ELSE 0

dpif_netdev_recv(d) ==
    LET i == find_nonempty_queue(d)
    IN IF i < N_QUEUES
       THEN [d |-> [d EXCEPT !.queues[i] = PopQueue(@),
                             !.pipe = ReadPipe(@)],
             error |-> "OK",
             upcall |-> QueueFront(d.queues[i])]
       ELSE [d |-> d, error |-> "EAGAIN", upcall |-> NoUpcall]

RECURSIVE PurgeQueue(_)
PurgeQueue(q) ==
    IF q.tail # q.head THEN PurgeQueue(PopQueue(q)) ELSE q
dp_netdev_purge_queues(d) ==
    [d EXCEPT !.queues = [i \in Queues |-> PurgeQueue(d.queues[i])]]

(***************************************************************************)
(* Packet paths.                                                           *)
(***************************************************************************)
\* a port_input that takes frames shorter than an Ethernet header too
dp_netdev_port_input_any_size(d, port, packet, t) ==
    IF packet.size < 0
    THEN [d |-> d, pushes |-> <<>>]
    ELSE LET key == flow_extract(packet, port.port_no)
             flow == dp_netdev_lookup_flow(d.flow_table, key)
         IN IF flow # NullFlow
            THEN LET d1 == [d EXCEPT !.flow_table[key] =
                                <<dp_netdev_flow_used(flow, packet, t)>>
                                \o Tail(@)]
                     st == dp_netdev_execute_actions(PacketState(d1),
                              d1.ports, packet, key, flow.actions)
                 IN [d |-> [WithPacketState(d1, st) EXCEPT !.n_hit = @ + 1],
                     pushes |-> st.pushes]
            ELSE LET d1 == [d EXCEPT !.n_missed = @ + 1]
                     st == dp_netdev_output_userspace(PacketState(d1),
                              packet, DPIF_UC_MISS, key, "none")
                 IN [d |-> WithPacketState(d1, st), pushes |-> st.pushes]

dp_netdev_port_input(d, port, packet, t) ==
    IF packet.size < ETH_HEADER_LEN
    THEN [d |-> d, pushes |-> <<>>]
    ELSE LET key == flow_extract(packet, port.port_no)
             flow == dp_netdev_lookup_flow(d.flow_table, key)
         IN IF flow # NullFlow
            THEN LET d1 == [d EXCEPT !.flow_table[key] =
                                <<dp_netdev_flow_used(flow, packet, t)>>
                                \o Tail(@)]
                     st == dp_netdev_execute_actions(PacketState(d1),
                              d1.ports, packet, key, flow.actions)
                 IN [d |-> [WithPacketState(d1, st) EXCEPT !.n_hit = @ + 1],
                     pushes |-> st.pushes]
            ELSE LET d1 == [d EXCEPT !.n_missed = @ + 1]
                     st == dp_netdev_output_userspace(PacketState(d1),
                              packet, DPIF_UC_MISS, key, "none")
                 IN [d |-> WithPacketState(d1, st), pushes |-> st.pushes]

UINT16_MAX == HALF - 1
\* the same with the actions run on the caller's buffer, no copy made
dpif_netdev_execute_in_place(d, packet, nlkey, actions) ==
    LET k == dpif_netdev_flow_from_nlattrs(nlkey)
        st == dp_netdev_execute_actions(PacketState(d), d.ports, packet,
                                        k.flow, actions)
    IN IF packet.size < ETH_HEADER_LEN \/ packet.size > UINT16_MAX
          \/ k.error # "OK"
       THEN [d |-> d, error |-> "EINVAL", pushes |-> <<>>,
             packet |-> packet]
       ELSE [d |-> WithPacketState(d, st), error |-> "OK",
             pushes |-> st.pushes, packet |-> st.packet]

\* packet is execute->packet, which is only read: the actions run on copy,
\* whose key is the one flow_from_nlattrs makes of execute->key
dpif_netdev_execute(d, packet, nlkey, actions) ==
    IF packet.size < ETH_HEADER_LEN \/ packet.size > UINT16_MAX
    THEN [d |-> d, error |-> "EINVAL", pushes |-> <<>>, packet |-> packet]
    ELSE LET copy == packet
             k == dpif_netdev_flow_from_nlattrs(nlkey)
         IN IF k.error # "OK"
            THEN [d |-> d, error |-> k.error, pushes |-> <<>>,
                  packet |-> packet]
            ELSE LET st == dp_netdev_execute_actions(PacketState(d),
                              d.ports, copy, k.flow, actions)
                 IN [d |-> WithPacketState(d, st), error |-> "OK",
                     pushes |-> st.pushes, packet |-> packet]

(***************************************************************************)
(* Spec: the handlers, each run to completion.                             *)
(***************************************************************************)
DevErrors == {"OK", "ENODEV"}
LowestClosed(h) ==
    /\ ~handles[h].open
    /\ \A g \in HandleIds : g < h => handles[g].open
Keep == UNCHANGED <<now, grevars, regvars, n_frames, n_port_ops, thr>>

DpifOpen(h, class, create, dev_error) ==
    /\ LowestClosed(h)
    /\ LET r == dpif_netdev_open(Dp, h, class, create, dev_error)
       IN /\ SetDp(r.d)
          /\ last' = [Last("open", r.error) EXCEPT
                         !.handle = h, !.class = class, !.create = create,
                         !.dev_error = dev_error]
          /\ s3' = IF ~registered /\ r.error = "OK"
                   THEN S3("inject", <<>>, 0) ELSE s3
    /\ Keep

DpifClose(h) ==
    /\ handles[h].open
    /\ LET d == dpif_netdev_close(Dp, h)
       IN /\ SetDp(d)
          /\ last' = Last("close", "OK")
          /\ s3' = IF d.registered THEN s3 ELSE S3Off
    /\ Keep

DpifDestroy(h) ==
    /\ handles[h].open
    /\ SetDp(dpif_netdev_destroy(Dp))
    /\ last' = Last("destroy", "OK")
    /\ UNCHANGED s3
    /\ Keep

PortAdd(h, devname, port_nop, dev_error) ==
    /\ handles[h].open
    /\ n_port_ops < MaxPortOps
    /\ LET r == dpif_netdev_port_add(Dp, devname, port_nop, dev_error)
       IN /\ SetDp(r.d)
          /\ last' = [Last("port_add", r.error) EXCEPT
                         !.port_no = r.port_no, !.devname = devname,
                         !.port_nop = port_nop, !.dev_error = dev_error]
          /\ n_port_ops' = IF r.error = "OK" THEN n_port_ops + 1
                           ELSE n_port_ops
    /\ UNCHANGED <<now, grevars, regvars, n_frames, thr, s3>>

PortDel(h, port_no) ==
    /\ handles[h].open
    /\ n_port_ops < MaxPortOps
    /\ LET r == dpif_netdev_port_del(Dp, port_no)
       IN /\ SetDp(r.d)
          /\ last' = [Last("port_del", r.error) EXCEPT !.port_no = port_no]
          /\ n_port_ops' = IF r.error = "OK" THEN n_port_ops + 1
                           ELSE n_port_ops
    /\ UNCHANGED <<now, grevars, regvars, n_frames, thr, s3>>

PortPoll(h) ==
    /\ handles[h].open
    /\ LET r == dpif_netdev_port_poll(Dp, h)
       IN /\ SetDp(r.d)
          /\ last' = [Last("port_poll", r.error) EXCEPT !.handle = h]
    /\ UNCHANGED s3
    /\ Keep

\* the ports of the datapath
LivePorts == { ports[i] : i \in { j \in DOMAIN ports : ports[j] # NullPort } }
PortDumpStart(t) ==
    /\ handles[1].open
    /\ thr[t].pc = "idle"
    /\ thr' = [thr EXCEPT ![t].pc = "dump",
                          ![t].state = dpif_netdev_port_dump_start,
                          ![t].dumped = <<>>, ![t].stable = LivePorts]
    /\ last' = Last("port_dump_start", "OK")
    /\ UNCHANGED <<dpvars, now, grevars, regvars, n_frames, n_port_ops, s3>>

\* dpif_port_dump_next stops calling after the first error
PortDumpNext(t) ==
    /\ handles[1].open
    /\ thr[t].pc = "dump"
    /\ LET r == dpif_netdev_port_dump_next(Dp, thr[t].state)
       IN /\ thr' = [thr EXCEPT
                        ![t].pc = IF r.error = "OK" THEN "dump"
                                  ELSE "dump_eof",
                        ![t].state = r.state,
                        ![t].dumped = IF r.error = "OK"
                                      THEN Append(@, r.port) ELSE @,
                        ![t].stable = @ \cap LivePorts]
          /\ last' = [Last("port_dump_next", r.error) EXCEPT
                         !.port_no = r.port.port_no]
    /\ UNCHANGED <<dpvars, now, grevars, regvars, n_frames, n_port_ops, s3>>

\* dpif_netdev_port_dump_done: the state is freed
PortDumpDone(t) ==
    /\ thr[t].pc \in {"dump", "dump_eof"}
    /\ thr' = [thr EXCEPT ![t] = Idle]
    /\ last' = Last("port_dump_done", "OK")
    /\ UNCHANGED <<dpvars, now, grevars, regvars, n_frames, n_port_ops, s3>>

\* the handlers below leave the other threads where they are; the Dp forms
\* say nothing of thr
FlowPutDp(h, key, flags, actions, want_stats) ==
    /\ handles[h].open
    /\ LET r == dpif_netdev_flow_put(Dp, Put(key, flags, actions, want_stats))
       IN /\ SetDp(r.d)
          /\ last' = [Last("flow_put", r.error) EXCEPT
                         !.key = key, !.flags = flags, !.actions = actions,
                         !.want_stats = want_stats, !.stats = r.stats]
          /\ s3' = IF r.error = "OK" THEN S3Off ELSE s3
    /\ UNCHANGED <<now, grevars, regvars, n_frames, n_port_ops>>
FlowPut(h, key, flags, actions, want_stats) ==
    FlowPutDp(h, key, flags, actions, want_stats) /\ UNCHANGED thr

FlowDelDp(h, key, want_stats) ==
    /\ handles[h].open
    /\ LET r == dpif_netdev_flow_del(Dp, key, want_stats)
       IN /\ SetDp(r.d)
          /\ last' = [Last("flow_del", r.error) EXCEPT
                         !.key = key, !.want_stats = want_stats,
                         !.stats = r.stats]
    /\ UNCHANGED <<s3, now, grevars, regvars, n_frames, n_port_ops>>
FlowDel(h, key, want_stats) == FlowDelDp(h, key, want_stats) /\ UNCHANGED thr

FlowFlush(h) ==
    /\ handles[h].open
    /\ SetDp(dp_netdev_flow_flush(Dp))
    /\ last' = Last("flow_flush", "OK")
    /\ UNCHANGED s3
    /\ Keep

Recv(h) ==
    /\ handles[h].open
    /\ LET r == dpif_netdev_recv(Dp)
       IN /\ SetDp(r.d)
          /\ last' = [Last("recv", r.error) EXCEPT !.upcall = r.upcall]
          /\ s3' = IF s3.phase \in {"inject", "drain"}
                   THEN S3(IF r.error = "OK" THEN "drain" ELSE "done",
                           s3.sent, s3.n_got + 1)
                   ELSE S3Off
    /\ Keep

RecvPurge(h) ==
    /\ handles[h].open
    /\ SetDp(dp_netdev_purge_queues(Dp))
    /\ last' = Last("recv_purge", "OK")
    /\ s3' = S3Off
    /\ Keep

Execute(h, f, key, actions) ==
    /\ handles[h].open
    /\ n_frames < MaxFrames
    /\ \E b \in BeyondReads(actions), random \in RandomDraws(actions) :
          LET r == dpif_netdev_execute(
                      [Dp EXCEPT !.beyond = b, !.random = random],
                      Packet(n_frames + 1, f), key, actions)
          IN /\ SetDp(r.d)
             /\ last' = [Last("execute", r.error) EXCEPT
                            !.key = key, !.actions = actions,
                            !.random = random, !.packet = r.packet,
                            !.upcall = Upcall(-1, NoNlKey, "none",
                                              Packet(n_frames + 1, f)),
                            !.pushes = r.pushes]
    /\ n_frames' = n_frames + 1
    /\ s3' = S3Off
    /\ UNCHANGED <<now, grevars, regvars, n_port_ops, thr>>

\* the actions of all flows, one list after the other
RECURSIVE ActionsOf(_, _)
ActionsOf(table, keys) ==
    IF keys = {} THEN <<>>
    ELSE LET k == CHOOSE x \in keys : TRUE
         IN (IF table[k] = <<>> THEN <<>> ELSE Head(table[k]).actions)
            \o ActionsOf(table, keys \ {k})
TableActions == ActionsOf(flow_table, DOMAIN flow_table)
\* the I/O worker delivers one frame of the i-th port of the list
PortInputDp(i, f) ==
    /\ registered
    /\ n_frames < MaxFrames
    /\ \E b \in BeyondReads(TableActions),
          random \in RandomDraws(TableActions) :
          LET packet == Packet(n_frames + 1, f)
              r == dp_netdev_port_input(
                      [Dp EXCEPT !.beyond = b, !.random = random],
                      port_list[i], packet, now)
          IN /\ SetDp(r.d)
             /\ last' = [Last("port_input", "OK") EXCEPT
                            !.port_no = port_list[i].port_no,
                            !.random = random,
                            !.upcall = Upcall(-1, NoNlKey, "none", packet),
                            !.pushes = r.pushes]
             /\ s3' = IF packet.size < ETH_HEADER_LEN THEN s3
                      ELSE IF s3.phase = "inject"
                           THEN S3("inject", Append(s3.sent, packet), 0)
                           ELSE S3Off
    /\ n_frames' = n_frames + 1
    /\ UNCHANGED <<now, grevars, regvars, n_port_ops>>
PortInput(i, f) == PortInputDp(i, f) /\ UNCHANGED thr

Tick ==
    /\ now < MaxNow
    /\ now' = now + 1
    /\ last' = Last("tick", "OK")
    /\ UNCHANGED <<dpvars, grevars, regvars, n_frames, n_port_ops, thr, s3>>

(***************************************************************************)
(* SpecQueues: the packet paths and the upcall queues of an open datapath  *)
(* with the LOCAL port and one more port: port_input, execute, recv,       *)
(* recv_purge, and the flow_put/flow_del that turn misses into hits.       *)
(***************************************************************************)
P1 == Port(1, <<"p", "1">>, "dummy")
\* a dummy datapath just created, with its first handle
OpenDp == create_dpif_netdev(create_dp_netdev(NoDp, "dummy", "OK").d, 1)
QueuesDp(action_start) ==
    LET d2 == do_add_port(OpenDp, P1.netdev, P1.type, P1.port_no, "OK").d
    IN [d2 EXCEPT !.queues[DPIF_UC_ACTION] = EmptyQueue(action_start)]
InitQueues ==
    /\ \E start \in {U32Zero, U32Warm} : InitDp(QueuesDp(start))
    /\ s3 = S3("inject", <<>>, 0)
    /\ InitRest

QKey == NlKey(TRUE, 1, "h1")
QFrames == { f \in Frames : f.hdr = "h1" /\ f.tcp < 2 }
QActions == { <<Userspace("ud"), Output(2)>>, <<>> }

NextQueues ==
    \/ \E i \in 1 .. Len(port_list), f \in QFrames : PortInput(i, f)
    \/ \E f \in QFrames, k \in {QKey, NlKey(FALSE, 1, "h1")},
          a \in QActions : Execute(1, f, k, a)
    \/ Recv(1)
    \/ RecvPurge(1)
    \/ \E a \in QActions : FlowPut(1, QKey, {"CREATE"}, a, FALSE)
    \/ FlowDel(1, QKey, FALSE)
    \/ Tick

SpecQueues == InitQueues /\ [][NextQueues]_vars

(***************************************************************************)
(* SpecFlows: the flow table of the same datapath under flow_put,          *)
(* flow_del, flow_flush and the packets that hit or miss its flows.        *)
(***************************************************************************)
FlowMaxFrames == 2
InitFlows ==
    /\ InitDp(QueuesDp(U32Zero))
    /\ s3 = S3Off
    /\ InitRest

FFrames == { f \in Frames : f.hdr = "h1" /\ f.tcp = 2 }
PutInput(flags, actions, want_stats) ==
    [flags |-> flags, actions |-> actions, want_stats |-> want_stats]
PutInputs ==
    { PutInput({}, <<>>, TRUE),
      PutInput({"CREATE"}, <<>>, FALSE),
      PutInput({"CREATE"}, <<Output(1)>>, TRUE),
      PutInput({"CREATE", "ZERO_STATS"}, <<>>, TRUE),
      PutInput({"MODIFY"}, <<>>, TRUE),
      PutInput({"MODIFY"}, <<Output(1)>>, FALSE),
      PutInput({"CREATE", "MODIFY"}, <<Output(1)>>, TRUE),
      PutInput({"MODIFY", "ZERO_STATS"}, <<>>, TRUE),
      PutInput({"MODIFY", "ZERO_STATS"}, <<Output(1)>>, FALSE) }
NextFlows ==
    \/ \E k \in NlKeyInputs, p \in PutInputs :
          FlowPut(1, k, p.flags, p.actions, p.want_stats)
    \/ \E k \in NlKeyInputs, w \in BOOLEAN : FlowDel(1, k, w)
    \/ FlowFlush(1)
    \/ \E f \in FFrames : n_frames < FlowMaxFrames /\ PortInput(2, f)

SpecFlows == InitFlows /\ [][NextFlows]_vars

(***************************************************************************)
(* SpecFlowThreads: two control threads in the THREADED build.  flow_put   *)
(* runs statement by statement: the steps are the critical sections of     *)
(* table_mutex and the unlocked statements between them.  Thread 1 may     *)
(* modify flows; flow_get is the reader.                                   *)
(***************************************************************************)
TKeys == { NlKey(TRUE, 1, "h1"), NlKey(TRUE, 2, "h1"),
           NlKey(TRUE, OFPP_NONE, "h1"), NlKey(FALSE, 1, "h1") }
TActions == { <<Output(1)>>, <<Output(2), Output(1)>> }
KeepFlowThreads ==
    UNCHANGED <<registered, dp_class, open_cnt, destroyed, handles, ports,
                port_list, serial, queues, pipe, n_hit, n_missed, n_lost, tx,
                now, grevars, regvars, n_frames, n_port_ops, s3>>
\* the entry a thread holds a pointer to: chains grow at the front and
\* nothing is removed here, so it is counted from the back
FlowAt(table, key, n) == table[key][Len(table[key]) - n + 1]
SetFlowAt(table, key, n, flow) ==
    [table EXCEPT ![key] = [@ EXCEPT ![Len(@) - n + 1] = flow]]
Returned(t, error) ==
    /\ thr' = [thr EXCEPT ![t] = Idle]
    /\ last' = [Last("flow_put", error) EXCEPT
                   !.key = thr[t].put.key, !.flags = thr[t].put.flags,
                   !.actions = thr[t].put.actions]

\* key parsing and dp_netdev_lookup_flow
FlowPutLookup(t, put) ==
    /\ handles[1].open
    /\ thr[t].pc = "idle"
    /\ LET k == dpif_netdev_flow_from_nlattrs(put.key)
           flow == dp_netdev_lookup_flow(flow_table, k.flow)
           error == IF k.error # "OK" THEN k.error
                    ELSE IF flow = NullFlow
                         THEN IF "CREATE" \in put.flags THEN "OK"
                              ELSE "ENOENT"
                         ELSE IF "MODIFY" \in put.flags THEN "OK"
                              ELSE "EEXIST"
       IN IF error # "OK"
          THEN /\ thr' = thr
               /\ last' = [Last("flow_put", error) EXCEPT
                              !.key = put.key, !.flags = put.flags,
                              !.actions = put.actions]
          ELSE /\ thr' = [thr EXCEPT ![t] =
                            [Idle EXCEPT
                                !.pc = IF flow = NullFlow THEN "count"
                                       ELSE "realloc",
                                !.put = put, !.key = k.flow,
                                !.flow = Len(flow_table[k.flow])]]
               /\ last' = last
    /\ UNCHANGED flow_table
    /\ KeepFlowThreads

\* n_flows = hmap_count(&dp->flow_table), under table_mutex
FlowPutCount(t) ==
    /\ thr[t].pc = "count"
    /\ thr' = [thr EXCEPT ![t].pc = "add",
                          ![t].n_flows = hmap_count(flow_table)]
    /\ UNCHANGED <<flow_table, last>>
    /\ KeepFlowThreads

\* if (n_flows < MAX_FLOWS) dp_netdev_flow_add(...) else EFBIG
FlowPutAdd(t) ==
    /\ thr[t].pc = "add"
    /\ IF TableHasRoom(thr[t].n_flows)
       THEN /\ flow_table' =
                  dp_netdev_flow_add(Dp, thr[t].key,
                                     thr[t].put.actions).flow_table
            /\ Returned(t, "OK")
       ELSE /\ flow_table' = flow_table
            /\ Returned(t, "EFBIG")
    /\ KeepFlowThreads

\* set_flow_actions: flow->actions = xrealloc(flow->actions, actions_len)
SetFlowActionsRealloc(t) ==
    /\ thr[t].pc = "realloc"
    /\ flow_table' =
          SetFlowAt(flow_table, thr[t].key, thr[t].flow,
                    xrealloc(FlowAt(flow_table, thr[t].key, thr[t].flow),
                             ActionsLen(thr[t].put.actions)))
    /\ thr' = [thr EXCEPT ![t].pc = "len"]
    /\ UNCHANGED last
    /\ KeepFlowThreads

\* set_flow_actions: flow->actions_len = actions_len
SetFlowActionsLen(t) ==
    /\ thr[t].pc = "len"
    /\ flow_table' =
          SetFlowAt(flow_table, thr[t].key, thr[t].flow,
                    set_actions_len(
                        FlowAt(flow_table, thr[t].key, thr[t].flow),
                        ActionsLen(thr[t].put.actions)))
    /\ thr' = [thr EXCEPT ![t].pc = "memcpy"]
    /\ UNCHANGED last
    /\ KeepFlowThreads

\* set_flow_actions: memcpy; then the rest of the MODIFY branch
SetFlowActionsMemcpy(t) ==
    /\ thr[t].pc = "memcpy"
    /\ flow_table' =
          SetFlowAt(flow_table, thr[t].key, thr[t].flow,
                    ModifyTail(FlowAt(flow_table, thr[t].key, thr[t].flow),
                               thr[t].put).flow)
    /\ Returned(t, "OK")
    /\ KeepFlowThreads

\* dpif_netdev_flow_get
FlowGet(t, nl) ==
    /\ handles[1].open
    /\ thr[t].pc = "idle"
    /\ LET r == dpif_netdev_flow_get(Dp, nl)
       IN last' = [Last("flow_get", r.error) EXCEPT
                      !.key = nl, !.actions = r.actions,
                      !.actions_len = r.actions_len, !.stats = r.stats]
    /\ UNCHANGED <<flow_table, thr>>
    /\ KeepFlowThreads

InitFlowThreads ==
    /\ InitDp(QueuesDp(U32Zero))
    /\ s3 = S3Off
    /\ InitRest

NextFlowThreads ==
    \/ \E t \in Threads, k \in TKeys, a \in TActions :
          FlowPutLookup(t, Put(k, {"CREATE"}, a, FALSE))
    \/ \E k \in TKeys, a \in TActions :
          FlowPutLookup(1, Put(k, {"MODIFY"}, a, FALSE))
    \/ \E t \in Threads : FlowPutCount(t)
    \/ \E t \in Threads : FlowPutAdd(t)
    \/ \E t \in Threads : SetFlowActionsRealloc(t)
    \/ \E t \in Threads : SetFlowActionsLen(t)
    \/ \E t \in Threads : SetFlowActionsMemcpy(t)
    \/ \E k \in TKeys : FlowGet(2, k)

SpecFlowThreads == InitFlowThreads /\ [][NextFlowThreads]_vars

(***************************************************************************)
(* SpecPortThreads: two control threads adding and deleting ports in the   *)
(* THREADED build.  port_add runs in three steps: the unlocked choice of   *)
(* the port number, the list_push_back under port_list_mutex, and the      *)
(* unlocked stores that follow it; port_del holds the mutex throughout.    *)
(***************************************************************************)
KeepPortThreads ==
    UNCHANGED <<registered, dp_class, open_cnt, destroyed, handles,
                flow_table, queues, pipe, n_hit, n_missed, n_lost, tx,
                now, grevars, regvars, n_frames, s3>>

\* dpif_netdev_port_add up to the lock of do_add_port
PortAddBegin(t, devname, port_nop, dev_error) ==
    /\ handles[1].open
    /\ thr[t].pc = "idle"
    /\ n_port_ops < MaxPortOps
    /\ LET n == port_add_number(Dp, devname, port_nop)
           error == IF n.error # "OK" THEN n.error ELSE dev_error
       IN IF error # "OK"
          THEN /\ thr' = thr
               /\ last' = [Last("port_add", error) EXCEPT
                              !.port_no = n.port_no]
          ELSE /\ thr' = [thr EXCEPT ![t] =
                            [Idle EXCEPT
                                !.pc = "link",
                                !.port = Port(n.port_no, devname, "dummy")]]
               /\ last' = last
    /\ UNCHANGED <<ports, port_list, serial, n_port_ops>>
    /\ KeepPortThreads

PortAddLink(t) ==
    /\ thr[t].pc = "link"
    /\ port_list' = do_add_port_link(Dp, thr[t].port).port_list
    /\ thr' = [thr EXCEPT ![t].pc = "publish"]
    /\ UNCHANGED <<ports, serial, n_port_ops, last>>
    /\ KeepPortThreads

PortAddPublish(t) ==
    /\ thr[t].pc = "publish"
    /\ LET d == do_add_port_publish(Dp, thr[t].port)
       IN ports' = d.ports /\ serial' = d.serial
    /\ thr' = [thr EXCEPT ![t] = Idle]
    /\ last' = [Last("port_add", "OK") EXCEPT
                   !.port_no = thr[t].port.port_no]
    /\ n_port_ops' = n_port_ops + 1
    /\ UNCHANGED port_list
    /\ KeepPortThreads

\* dpif_netdev_port_query_by_number
PortQueryByNumber(h, port_no) ==
    /\ handles[h].open
    /\ LET g == get_port_by_number(Dp, port_no)
       IN last' = [Last("port_query_by_number", g.error) EXCEPT
                      !.port_no = port_no]
    /\ UNCHANGED <<dpvars, s3>>
    /\ Keep

\* dpif_netdev_port_query_by_name; the answer's port number is kept
PortQueryByName(h, devname) ==
    /\ handles[h].open
    /\ LET g == get_port_by_name(port_list, devname)
       IN last' = [Last("port_query_by_name", g.error) EXCEPT
                      !.port_no = g.port.port_no]
    /\ UNCHANGED <<dpvars, s3>>
    /\ Keep

InitPortThreads ==
    /\ InitDp(OpenDp)
    /\ s3 = S3Off
    /\ InitRest

NextPortThreads ==
    \/ \E t \in Threads, n \in DevNames, p \in {ANY_PORT, 1, MAX_PORTS},
          e \in DevErrors : PortAddBegin(t, n, p, e)
    \/ \E t \in Threads : PortAddLink(t)
    \/ \E t \in Threads : PortAddPublish(t)
    \/ \E p \in PortNos : PortDel(1, p)
    \/ \E p \in PortNos : PortQueryByNumber(1, p)
    \/ \E n \in DevNames : PortQueryByName(1, n)

SpecPortThreads == InitPortThreads /\ [][NextPortThreads]_vars

(***************************************************************************)
(* SpecPorts: one control thread on a datapath from before its creation,   *)
(* or on one that has run so long that dp->serial is about to wrap.        *)
(***************************************************************************)
PortsMaxFrames == 1
InitPorts ==
    /\ \E d \in {NoDp, WarmDp} : InitDp(d)
    /\ s3 = S3Off
    /\ InitRest

PortAddInput(devname, port_nop, dev_error) ==
    [devname |-> devname, port_nop |-> port_nop, dev_error |-> dev_error]
PortAddInputs ==
    { PortAddInput(<<"p", "1">>, ANY_PORT, "OK"),
      PortAddInput(<<"e", "2", "x">>, 1, "OK"),
      PortAddInput(<<"e", "2", "x">>, ANY_PORT, "OK"),
      PortAddInput(<<"b", "r", "0">>, ANY_PORT, "ENODEV"),
      PortAddInput(<<"p", "1">>, MAX_PORTS, "OK") }
NextPorts ==
    \/ \E h \in HandleIds, c \in Classes, create \in BOOLEAN,
          e \in DevErrors : DpifOpen(h, c, create, e)
    \/ \E h \in HandleIds : DpifClose(h)
    \/ \E h \in HandleIds : DpifDestroy(h)
    \/ \E i \in PortAddInputs :
          PortAdd(1, i.devname, i.port_nop, i.dev_error)
    \/ \E p \in PortNos : PortDel(1, p)
    \/ FlowPut(1, QKey, {"CREATE"}, <<>>, FALSE)
    \/ FlowDel(1, QKey, FALSE)
    \/ FlowFlush(1)
    \/ \E f \in FFrames : n_frames < PortsMaxFrames /\ PortInput(1, f)
    \/ \E f \in FFrames :
          n_frames < PortsMaxFrames
          /\ Execute(1, f, QKey, <<Userspace("ud")>>)
    \/ Recv(1)
    \/ RecvPurge(1)

SpecPorts == InitPorts /\ [][NextPorts]_vars

(***************************************************************************)
(* SpecClients: the clients of one datapath, from before its creation or   *)
(* with dp->serial about to wrap: handles are opened, closed and           *)
(* destroyed; each client adds and deletes ports and polls for port-set    *)
(* changes.                                                                *)
(***************************************************************************)
InitClients ==
    /\ \E d \in {NoDp, WarmDp} : InitDp(d)
    /\ s3 = S3Off
    /\ InitRest

ClientAddInputs ==
    { PortAddInput(<<"p", "1">>, ANY_PORT, "OK"),
      PortAddInput(<<"e", "2", "x">>, ANY_PORT, "OK"),
      PortAddInput(<<"e", "2", "x">>, OVSP_LOCAL, "OK"),
      PortAddInput(<<"e", "2", "x">>, 1, "ENODEV") }
NextClients ==
    \/ \E h \in HandleIds, c \in Classes, create \in BOOLEAN,
          e \in DevErrors : DpifOpen(h, c, create, e)
    \/ \E h \in HandleIds : DpifClose(h)
    \/ \E h \in HandleIds : DpifDestroy(h)
    \/ \E h \in HandleIds, i \in ClientAddInputs :
          PortAdd(h, i.devname, i.port_nop, i.dev_error)
    \/ \E h \in HandleIds, p \in PortNos : PortDel(h, p)
    \/ \E h \in HandleIds : PortPoll(h)

SpecClients == InitClients /\ [][NextClients]_vars

(***************************************************************************)
(* SpecPortAdd: port_add applied to datapaths of either class whose ports  *)
(* array has LongMaxPorts slots, enough for the numbers choose_port makes  *)
(* of names that start with "br", and is empty, partly filled or full.     *)
(***************************************************************************)
LongMaxPorts == 102
LongPortNos == 0 .. LongMaxPorts - 1
AddNames ==
    DevNames \cup { <<"b", "r", "1">>, <<"e", "t", "h">>, <<"p", "0">>,
                    <<"p", "4", "2", "9", "4", "9", "6", "7", "2", "9", "8">> }
\* the port that occupies slot i
Filler(i) == Port(i, <<"f">>, "dummy")
\* the ports of the occupied slots, in the order of their numbers
FillerList(occupied) ==
    [k \in 1 .. Cardinality(occupied) |->
        Filler(CHOOSE i \in occupied :
                  Cardinality({ j \in occupied : j < i }) = k - 1)]
\* an open datapath whose slots in occupied, besides slot 0, hold ports
LongDp(class, occupied) ==
    [NoDp EXCEPT
        !.registered = TRUE, !.dp_class = class, !.open_cnt = 1,
        !.handles[1] = [open |-> TRUE, dp_serial |-> U32Zero],
        !.ports = [i \in LongPortNos |->
                      IF i = OVSP_LOCAL THEN LocalPort
                      ELSE IF i \in occupied THEN Filler(i) ELSE NullPort],
        !.port_list = <<LocalPort>> \o FillerList(occupied),
        !.serial = U32(0, 1 + Cardinality(occupied))]
Occupations ==
    { {}, {1}, {1, 2}, {100}, {101}, 1 .. 99, 1 .. LongMaxPorts - 2,
      1 .. LongMaxPorts - 1 }
LongAddInputs ==
    { PortAddInput(n, ANY_PORT, "OK") : n \in AddNames }
    \cup { PortAddInput(<<"p", "1">>, n, "OK") :
              n \in {OVSP_LOCAL, 1, 100, LongMaxPorts - 1, LongMaxPorts,
                     OFPP_LOCAL} }
    \cup { PortAddInput(<<"b", "r", "1">>, ANY_PORT, "ENODEV") }

\* dpif_netdev_port_add on the long array
PortAddLong(devname, port_nop, dev_error) ==
    /\ n_port_ops < MaxPortOps
    /\ LET r == dpif_netdev_port_add_in(LongMaxPorts, Dp, devname, port_nop,
                                        dev_error)
       IN /\ SetDp(r.d)
          /\ last' = [Last("port_add", r.error) EXCEPT
                         !.port_no = r.port_no, !.devname = devname,
                         !.port_nop = port_nop, !.dev_error = dev_error]
          /\ n_port_ops' = IF r.error = "OK" THEN n_port_ops + 1
                           ELSE n_port_ops
    /\ UNCHANGED <<now, grevars, regvars, n_frames, thr, s3>>

InitPortAdd ==
    /\ \E c \in Classes, o \in Occupations : InitDp(LongDp(c, o))
    /\ s3 = S3Off
    /\ InitRest

NextPortAdd ==
    \E i \in LongAddInputs : PortAddLong(i.devname, i.port_nop, i.dev_error)

SpecPortAdd == InitPortAdd /\ [][NextPortAdd]_vars

(***************************************************************************)
(* SpecDump: a client dumps the ports of a datapath while ports are added  *)
(* and deleted between its calls.                                          *)
(***************************************************************************)
DumpDps ==
    { OpenDp,
      do_add_port(OpenDp, <<"p", "1">>, "dummy", 1, "OK").d,
      do_add_port(OpenDp, <<"p", "1">>, "dummy", 2, "OK").d,
      do_add_port(do_add_port(OpenDp, <<"p", "1">>, "dummy", 1, "OK").d,
                  <<"e", "2", "x">>, "dummy", 2, "OK").d }
InitDump ==
    /\ \E d \in DumpDps : InitDp(d)
    /\ s3 = S3Off
    /\ InitRest

DumpAddInputs ==
    { PortAddInput(<<"p", "1">>, ANY_PORT, "OK"),
      PortAddInput(<<"e", "2", "x">>, ANY_PORT, "OK"),
      PortAddInput(<<"b", "r", "0">>, 2, "OK") }
NextDump ==
    \/ PortDumpStart(1)
    \/ PortDumpNext(1)
    \/ PortDumpDone(1)
    \/ \E i \in DumpAddInputs :
          PortAdd(1, i.devname, i.port_nop, i.dev_error)
    \/ \E p \in PortNos : PortDel(1, p)

SpecDump == InitDump /\ [][NextDump]_vars

(***************************************************************************)
(* SpecHits: frames arrive on two ports of a datapath whose flow table     *)
(* holds none, one or both of the flows they match, while flows are put,   *)
(* modified, zeroed and deleted.                                           *)
(***************************************************************************)
HitsDp ==
    do_add_port(do_add_port(OpenDp, <<"p", "1">>, "dummy", 1, "OK").d,
                <<"e", "2", "x">>, "dummy", 2, "OK").d
InitHits ==
    /\ InitDp(HitsDp)
    /\ s3 = S3Off
    /\ InitRest

HitKeys == { NlKey(TRUE, 1, "h1"), NlKey(TRUE, 2, "h1") }
HitFrames == { f \in Frames : f.hdr = "h1" }
HitPuts ==
    { PutInput({"CREATE"}, <<>>, FALSE),
      PutInput({"MODIFY"}, <<Output(1)>>, FALSE),
      PutInput({"MODIFY", "ZERO_STATS"}, <<>>, FALSE) }
NextHits ==
    \/ \E k \in HitKeys, p \in HitPuts :
          FlowPut(1, k, p.flags, p.actions, p.want_stats)
    \/ \E k \in HitKeys : FlowDel(1, k, FALSE)
    \/ \E i \in {2, 3}, f \in HitFrames : PortInput(i, f)

SpecHits == InitHits /\ [][NextHits]_vars

(***************************************************************************)
(* SpecOutput: OUTPUT actions, given to execute or installed in a flow     *)
(* that frames then hit, name ports that exist, ports deleted since, and   *)
(* numbers that are no slot of dp->ports.                                  *)
(***************************************************************************)
InitOutput ==
    /\ InitDp(HitsDp)
    /\ s3 = S3Off
    /\ InitRest

OutputActions ==
    { <<Output(1)>>, <<Output(2)>>, <<Output(2), Output(1)>>,
      <<Output(MAX_PORTS)>>, <<Output(OFPP_NONE)>> }
OutputFrames == { f \in Frames : f.hdr = "h1" /\ f.tcp = 1 }
NextOutput ==
    \/ \E a \in OutputActions :
          FlowPut(1, QKey, {"CREATE", "MODIFY"}, a, FALSE)
    \/ PortDel(1, 2)
    \/ \E f \in OutputFrames : PortInput(2, f)
    \/ \E f \in OutputFrames, a \in OutputActions : Execute(1, f, QKey, a)

SpecOutput == InitOutput /\ [][NextOutput]_vars

(***************************************************************************)
(* SpecSample: a SAMPLE action followed by an OUTPUT, given to execute or  *)
(* installed in a flow that frames then hit, for probabilities at both     *)
(* ends of the range and in its middle, and every draw of Draws.  The      *)
(* sampled copy goes to port 2, the OUTPUT after the SAMPLE to port 1.     *)
(***************************************************************************)
InitSample ==
    /\ InitDp(HitsDp)
    /\ s3 = S3Off
    /\ InitRest

Probabilities == { U32Zero, U32(HALF \div 2, 0), U32Max }
SampleThenOutput(p) ==
    <<Sample(<<Probability(p), SampleActions(<<Output(2)>>)>>), Output(1)>>
SampleLists ==
    { SampleThenOutput(p) : p \in Probabilities }
    \cup { <<Sample(<<SampleActions(<<Output(2)>>), Probability(U32Max)>>)>> }
NextSample ==
    \/ \E a \in SampleLists :
          FlowPut(1, QKey, {"CREATE", "MODIFY"}, a, FALSE)
    \/ \E f \in OutputFrames : PortInput(2, f)
    \/ \E f \in OutputFrames, a \in SampleLists : Execute(1, f, QKey, a)

SpecSample == InitSample /\ [][NextSample]_vars

(***************************************************************************)
(* SpecExecute: execute with packets of every size class, keys that parse  *)
(* and keys that do not, and actions that send, queue an upcall and change *)
(* the packet, on a datapath whose flows are installed, hit and missed.    *)
(***************************************************************************)
InitExecute ==
    /\ InitDp(HitsDp)
    /\ s3 = S3Off
    /\ InitRest

ExecFrames ==
    { f \in Frames : f.tcp = 0 }
    \cup { [size |-> UINT16_MAX, hdr |-> "h1", tcp |-> 0],
           [size |-> UINT16_MAX + 1, hdr |-> "h1", tcp |-> 0] }
ExecKeys ==
    { QKey, NlKey(TRUE, OFPP_NONE, "h1"), NlKey(FALSE, 1, "h1"),
      NlKey(TRUE, MAX_PORTS, "h1") }
ExecActions ==
    { <<PushVlan(1), Userspace("ud"), Output(2)>>, <<Output(1)>> }
NextExecute ==
    \/ \E f \in ExecFrames, k \in ExecKeys, a \in ExecActions :
          Execute(1, f, k, a)
    \/ FlowPut(1, QKey, {"CREATE"}, <<Output(2)>>, FALSE)
    \/ \E f \in OutputFrames : PortInput(2, f)

SpecExecute == InitExecute /\ [][NextExecute]_vars

(***************************************************************************)
(* SpecStats: thread 1 calls get_stats in the THREADED build while the I/O *)
(* worker delivers frames and another control thread puts and deletes a    *)
(* flow.  get_stats runs read by read: n_flows under table_mutex, then     *)
(* n_hit, n_missed and n_lost with no lock held.                           *)
(***************************************************************************)
StatsNow(d) == DpStats(hmap_count(d.flow_table), d.n_hit, d.n_missed, d.n_lost)
InStats(t) == thr[t].pc \in {"stats_hit", "stats_missed", "stats_lost"}
\* a step of another thread, watched by the get_stats calls in progress
Watched(A) ==
    /\ A
    /\ thr' = [t \in Threads |->
                 IF InStats(t)
                 THEN [thr[t] EXCEPT !.seen = @ \cup {StatsNow(Dp)'}]
                 ELSE thr[t]]
KeepStats == UNCHANGED <<dpvars, now, grevars, regvars, n_frames, n_port_ops, s3>>

\* stats->n_flows = hmap_count(&dp->flow_table), under table_mutex
GetStatsFlows(t) ==
    /\ handles[1].open
    /\ thr[t].pc = "idle"
    /\ thr' = [thr EXCEPT ![t] =
                  [Idle EXCEPT !.pc = "stats_hit",
                               !.stats.n_flows = hmap_count(flow_table),
                               !.seen = {StatsNow(Dp)}]]
    /\ UNCHANGED last
    /\ KeepStats
\* stats->n_hit = dp->n_hit
GetStatsHit(t) ==
    /\ thr[t].pc = "stats_hit"
    /\ thr' = [thr EXCEPT ![t].pc = "stats_missed", ![t].stats.n_hit = n_hit]
    /\ UNCHANGED last
    /\ KeepStats
\* stats->n_missed = dp->n_missed
GetStatsMissed(t) ==
    /\ thr[t].pc = "stats_missed"
    /\ thr' = [thr EXCEPT ![t].pc = "stats_lost",
                          ![t].stats.n_missed = n_missed]
    /\ UNCHANGED last
    /\ KeepStats
\* stats->n_lost = dp->n_lost; return 0
GetStatsLost(t) ==
    /\ thr[t].pc = "stats_lost"
    /\ thr' = [thr EXCEPT ![t] = Idle]
    /\ last' = [Last("get_stats", "OK") EXCEPT
                   !.dp_stats = [thr[t].stats EXCEPT !.n_lost = n_lost],
                   !.seen = thr[t].seen]
    /\ KeepStats

InitStats ==
    /\ InitDp(HitsDp)
    /\ s3 = S3Off
    /\ InitRest

NextStats ==
    \/ GetStatsFlows(1)
    \/ GetStatsHit(1)
    \/ GetStatsMissed(1)
    \/ GetStatsLost(1)
    \/ \E f \in OutputFrames : Watched(PortInputDp(2, f))
    \/ Watched(FlowPutDp(1, QKey, {"CREATE"}, <<>>, FALSE))
    \/ Watched(FlowDelDp(1, QKey, FALSE))

SpecStats == InitStats /\ [][NextStats]_vars

(***************************************************************************)
(* SpecPush: the I/O worker (thread 2) queues the upcalls of missed frames *)
(* in the THREADED build while a control thread calls recv and            *)
(* recv_purge.  dp_netdev_output_userspace runs in the three steps its    *)
(* locking makes: the test of the queue's length with q->head++, then the *)
(* writing of the record, both with no lock held, then the write on the   *)
(* pipe under table_mutex.  recv and recv_purge hold table_mutex          *)
(* throughout.                                                             *)
(***************************************************************************)
KeepPush ==
    UNCHANGED <<registered, dp_class, open_cnt, destroyed, handles, ports,
                port_list, serial, flow_table, n_hit, tx, now, grevars, regvars, n_port_ops,
                s3>>
\* dp_netdev_port_input of a frame that matches no flow, up to the
\* q->head++ of dp_netdev_output_userspace or its ENOBUFS
PortInputMiss(t, i, f) ==
    /\ registered
    /\ thr[t].pc = "idle"
    /\ n_frames < MaxFrames
    /\ LET packet == Packet(n_frames + 1, f)
           key == flow_extract(packet, port_list[i].port_no)
           q == queues[DPIF_UC_MISS]
       IN /\ packet.size >= ETH_HEADER_LEN
          /\ dp_netdev_lookup_flow(flow_table, key) = NullFlow
          /\ n_missed' = n_missed + 1
          /\ IF QueueHasRoom(q)
             THEN /\ queues' = [queues EXCEPT
                                   ![DPIF_UC_MISS].head = U32Inc(@)]
                  /\ thr' = [thr EXCEPT ![t] =
                               [Idle EXCEPT
                                   !.pc = "push_write",
                                   !.queue_no = DPIF_UC_MISS,
                                   !.head = q.head,
                                   !.upcall =
                                       Upcall(DPIF_UC_MISS,
                                              odp_flow_key_from_flow(
                                                  key, key.in_port),
                                              "none", packet)]]
                  /\ UNCHANGED <<n_lost, last>>
             ELSE /\ n_lost' = n_lost + 1
                  /\ last' = [Last("port_input", "OK") EXCEPT
                                 !.pushes = <<PushResult(DPIF_UC_MISS,
                                                         "ENOBUFS")>>]
                  /\ UNCHANGED <<queues, thr>>
    /\ n_frames' = n_frames + 1
    /\ UNCHANGED pipe
    /\ KeepPush
\* upcall->type, key, userdata and packet are written into the slot
PushWrite(t) ==
    /\ thr[t].pc = "push_write"
    /\ queues' = [queues EXCEPT
                     ![thr[t].queue_no].upcalls[U32AndMask(thr[t].head)] =
                         thr[t].upcall]
    /\ thr' = [thr EXCEPT ![t].pc = "push_signal"]
    /\ UNCHANGED <<pipe, n_missed, n_lost, n_frames, last>>
    /\ KeepPush
\* write(dp->pipe[1], &c, 1) under table_mutex; return 0
PushSignal(t) ==
    /\ thr[t].pc = "push_signal"
    /\ pipe' = WritePipe(pipe)
    /\ thr' = [thr EXCEPT ![t] = Idle]
    /\ last' = [Last("port_input", "OK") EXCEPT
                   !.upcall = thr[t].upcall,
                   !.pushes = <<PushResult(thr[t].queue_no, "OK")>>]
    /\ UNCHANGED <<queues, n_missed, n_lost, n_frames>>
    /\ KeepPush

InitPush ==
    /\ InitDp(HitsDp)
    /\ s3 = S3Off
    /\ InitRest

NextPush ==
    \/ \E i \in {2, 3}, f \in OutputFrames : PortInputMiss(2, i, f)
    \/ PushWrite(2)
    \/ PushSignal(2)
    \/ Recv(1)
    \/ RecvPurge(1)

SpecPush == InitPush /\ [][NextPush]_vars

(***************************************************************************)
(* SpecWake: the worker of SpecPush and a consumer (thread 1) that waits   *)
(* in its poll loop for the read end of the pipe, as recv_wait registers   *)
(* it, and then calls recv until EAGAIN.  The pipe starts empty or one     *)
(* byte short of full, as pushes followed by recv_purge leave it.  The     *)
(* worker goes on with a push it has begun, and the consumer's poll        *)
(* returns when the pipe is readable: hence the fairness conditions.       *)
(***************************************************************************)
\* recv_wait: poll_fd_wait(dp->pipe[0], POLLIN), and the poll that follows
RecvWait(t) ==
    /\ handles[1].open
    /\ thr[t].pc = "idle"
    /\ thr' = [thr EXCEPT ![t].pc = "poll"]
    /\ UNCHANGED <<dpvars, last, s3, now, grevars, regvars, n_frames, n_port_ops>>
\* poll returns: the read end of the pipe is readable
PollWakes(t) ==
    /\ thr[t].pc = "poll"
    /\ pipe > 0
    /\ thr' = [thr EXCEPT ![t].pc = "drain"]
    /\ UNCHANGED <<dpvars, last, s3, now, grevars, regvars, n_frames, n_port_ops>>
\* recv, called until it returns EAGAIN
RecvDrain(t) ==
    /\ thr[t].pc = "drain"
    /\ LET r == dpif_netdev_recv(Dp)
       IN /\ SetDp(r.d)
          /\ last' = [Last("recv", r.error) EXCEPT !.upcall = r.upcall]
          /\ thr' = [thr EXCEPT ![t].pc =
                        IF r.error = "OK" THEN "drain" ELSE "idle"]
    /\ UNCHANGED <<s3, now, grevars, regvars, n_frames, n_port_ops>>

InitWake ==
    /\ \E n \in {0, PIPE_CAPACITY - 1} : InitDp([HitsDp EXCEPT !.pipe = n])
    /\ s3 = S3Off
    /\ InitRest

NextWake ==
    \/ \E i \in {2, 3}, f \in OutputFrames : PortInputMiss(2, i, f)
    \/ PushWrite(2)
    \/ PushSignal(2)
    \/ RecvWait(1)
    \/ PollWakes(1)
    \/ RecvDrain(1)

SpecWake ==
    /\ InitWake
    /\ [][NextWake]_vars
    /\ WF_vars(PushWrite(2))
    /\ WF_vars(PushSignal(2))
    /\ WF_vars(RecvWait(1))
    /\ WF_vars(PollWakes(1))
    /\ WF_vars(RecvDrain(1))

(***************************************************************************)
(* SpecWorker: the loop of dp_thread_body (thread 2) over the ports of the *)
(* datapath: it builds fds, polls, and walks the port list again calling   *)
(* netdev_dispatch on the ports poll has marked.  poll and netdev_dispatch *)
(* return what the system makes them return; the main thread may cancel    *)
(* the worker.  The worker is a thread that runs: hence the fairness.      *)
(***************************************************************************)
KeepWorker == UNCHANGED <<dpvars, now, grevars, regvars, n_frames, n_port_ops, s3>>
PollErrors == {"EINTR", "ENOMEM"}
\* the walk over the port list that fills fds and sets port->poll_fd
WorkerBuild(t) ==
    /\ registered
    /\ thr[t].pc = "idle"
    /\ thr' = [thr EXCEPT ![t] =
                  [Idle EXCEPT
                      !.pc = "poll",
                      !.fds = [i \in 1 .. Len(port_list) |->
                                 port_list[i].port_no]]]
    /\ last' = Last("worker_build", "OK")
    /\ KeepWorker
\* a worker that any failure of poll ends
WorkerPollEnds(t, errno) ==
    /\ thr[t].pc = "poll"
    /\ thr' = [thr EXCEPT ![t] = [Idle EXCEPT !.pc = "dead"]]
    /\ last' = Last("worker_poll", errno)
    /\ KeepWorker
\* error = poll(fds, n_fds, 2000) fails: continue on EINTR, break otherwise
WorkerPollFails(t, errno) ==
    /\ thr[t].pc = "poll"
    /\ thr' = [thr EXCEPT ![t] =
                  [Idle EXCEPT !.pc = IF errno = "EINTR" THEN "idle"
                                      ELSE "dead"]]
    /\ last' = Last("worker_poll", errno)
    /\ KeepWorker
\* poll returns the number of entries it has marked, 0 after 2000 ms
WorkerPoll(t, revents) ==
    /\ thr[t].pc = "poll"
    /\ thr' = [thr EXCEPT ![t].pc = "serve", ![t].revents = revents,
                          ![t].node = 1, ![t].served = {}]
    /\ last' = Last("worker_poll", "OK")
    /\ KeepWorker
\* the walk over the port list is over: the next iteration of for (;;)
WorkerNext(t) ==
    /\ thr[t].pc = "serve"
    /\ thr[t].node > Len(port_list)
    /\ thr' = [thr EXCEPT ![t] = Idle]
    /\ last' = [Last("worker_next", "OK") EXCEPT
                   !.seen = thr[t].served]
    /\ KeepWorker
\* a port of the list whose entry is not marked POLLIN
WorkerSkip(t) ==
    /\ thr[t].pc = "serve"
    /\ thr[t].node <= Len(port_list)
    /\ thr[t].node \notin thr[t].revents
    /\ thr' = [thr EXCEPT ![t].node = @ + 1]
    /\ last' = [Last("worker_skip", "OK") EXCEPT
                   !.port_no = port_list[thr[t].node].port_no]
    /\ KeepWorker
\* netdev_dispatch on a marked port: it fails (processed < 0, which is
\* logged), or it hands the frames it has, none or one here, to
\* process_pkt and so to dp_netdev_port_input
WorkerDispatch(t, processed, f) ==
    /\ thr[t].pc = "serve"
    /\ thr[t].node <= Len(port_list)
    /\ thr[t].node \in thr[t].revents
    /\ processed = 1 => n_frames < MaxFrames
    /\ LET port == port_list[thr[t].node]
           packet == Packet(n_frames + 1, f)
           r == dp_netdev_port_input(Dp, port, packet, now)
       IN /\ IF processed = 1
             THEN SetDp(r.d) /\ n_frames' = n_frames + 1
             ELSE UNCHANGED <<dpvars, n_frames>>
          /\ last' = [Last("worker_dispatch",
                           IF processed < 0 THEN "ERROR" ELSE "OK") EXCEPT
                         !.port_no = port.port_no,
                         !.upcall = IF processed = 1
                                    THEN Upcall(-1, NoNlKey, "none", packet)
                                    ELSE NoUpcall]
    /\ thr' = [thr EXCEPT ![t].node = @ + 1,
                          ![t].served = @ \cup {thr[t].node}]
    /\ UNCHANGED <<now, grevars, regvars, n_port_ops, s3>>
\* dpif_netdev_exit_hook: pthread_cancel takes effect in poll or in the
\* pthread_testcancel that follows it
WorkerCancel(t) ==
    /\ thr[t].pc = "poll"
    /\ thr' = [thr EXCEPT ![t] = [Idle EXCEPT !.pc = "cancelled"]]
    /\ last' = Last("worker_cancel", "OK")
    /\ KeepWorker
WorkerStep(t) ==
    \/ WorkerBuild(t)
    \/ \E e \in PollErrors : WorkerPollFails(t, e)
    \/ \E ready \in SUBSET (1 .. Len(thr[t].fds)) : WorkerPoll(t, ready)
    \/ WorkerNext(t)
    \/ WorkerSkip(t)
    \/ \E processed \in {-1, 0, 1}, f \in OutputFrames :
          WorkerDispatch(t, processed, f)

InitWorker ==
    /\ InitDp(HitsDp)
    /\ s3 = S3Off
    /\ InitRest

NextWorker ==
    \/ WorkerStep(2)
    \/ WorkerCancel(2)

SpecWorker == InitWorker /\ [][NextWorker]_vars /\ WF_vars(WorkerStep(2))

(***************************************************************************)
(* Properties of the upcall queues.                                        *)
(***************************************************************************)
\* the records a queue holds, whatever its indices say
Stored(q) == { q.upcalls[i] : i \in 0 .. QUEUE_MASK } \ {NoUpcall}
StoredCount(q) == Cardinality({ i \in 0 .. QUEUE_MASK : q.upcalls[i] # NoUpcall })
\* the record that was pushed first: payloads are numbered in arrival order
Oldest(S) == CHOOSE u \in S : \A v \in S : u.packet.id <= v.packet.id
Min(a, b) == IF a < b THEN a ELSE b
Max(a, b) == IF a > b THEN a ELSE b
\* the i-th pending record of a queue, counted from the tail (i >= 1)
RECURSIVE U32Add(_, _)
U32Add(u, n) == IF n = 0 THEN u ELSE U32Add(U32Inc(u), n - 1)
Pending(q, i) == q.upcalls[U32AndMask(U32Add(q.tail, i - 1))]
Wrapped(q) == q.tail.hi = HALF - 1 /\ q.head.hi = 0

\* C1: for both queues, head - tail (mod 2^32) is between 0 and
\* MAX_QUEUE_LEN and is the number of records the queue holds, in every
\* state reached by port_input, execute, recv and recv_purge, also across
\* the wrap of head and tail at 2^32.
C1_QueueLenBounded ==
    \A i \in Queues :
        /\ QueueLen(queues[i]).hi = 0
        /\ QueueLen(queues[i]).lo <= MAX_QUEUE_LEN
        /\ QueueLen(queues[i]).lo = StoredCount(queues[i])
\* a full queue whose head has wrapped past 2^32 and whose tail has not
C1_Witness ==
    \E i \in Queues :
        /\ Wrapped(queues[i])
        /\ QueueLen(queues[i]) = U32(0, MAX_QUEUE_LEN)

\* C2: a handler step that pushes one upcall: onto a queue holding
\* MAX_QUEUE_LEN records the push returns ENOBUFS, n_lost grows by one and
\* the queues are unchanged; otherwise it returns 0, the pushed packet is
\* stored in the slot at the old head, head advances by one, tail, the other
\* slots, the other queue and n_lost are unchanged.
PushStep ==
    /\ last'.op \in {"port_input", "execute"}
    /\ n_frames' = n_frames + 1
    /\ Len(last'.pushes) = 1
C2_PushOutcome ==
    [][PushStep =>
        LET p == last'.pushes[1]
            q == queues[p.q]
            slot == U32AndMask(q.head)
        IN IF StoredCount(q) = MAX_QUEUE_LEN
           THEN /\ p.ret = "ENOBUFS"
                /\ n_lost' = n_lost + 1
                /\ queues' = queues
           ELSE /\ p.ret = "OK"
                /\ n_lost' = n_lost
                /\ queues'[p.q].head = U32Inc(q.head)
                /\ queues'[p.q].tail = q.tail
                /\ q.upcalls[slot] = NoUpcall
                /\ queues'[p.q].upcalls[slot].packet.id = n_frames'
                /\ queues'[p.q].upcalls[slot].type = p.q
                /\ \A i \in 0 .. QUEUE_MASK :
                      i # slot =>
                        queues'[p.q].upcalls[i] = q.upcalls[i]
                /\ StoredCount(queues'[p.q]) = StoredCount(q) + 1
                /\ \A o \in Queues : o # p.q => queues'[o] = queues[o]
    ]_vars
\* an upcall produced by the USERSPACE action of a hit was dropped
C2_Witness ==
    /\ last.op = "port_input"
    /\ last.pushes = <<PushResult(DPIF_UC_ACTION, "ENOBUFS")>>
    /\ n_lost > 0
    /\ StoredCount(queues[DPIF_UC_ACTION]) = MAX_QUEUE_LEN

\* C3: with no flow installed and no recv in between, after k frames of at
\* least ETH_HEADER_LEN bytes: n_missed = k, n_lost = max(0, k -
\* MAX_QUEUE_LEN), the MISS queue holds the first min(k, MAX_QUEUE_LEN)
\* frames in arrival order; the recv calls that follow return these frames
\* in that order, then EAGAIN.
C3_MissFifo ==
    LET k == Len(s3.sent)
        m == Min(k, MAX_QUEUE_LEN)
        q == queues[DPIF_UC_MISS]
    IN /\ s3.phase = "inject" =>
            /\ n_missed = k
            /\ n_lost = Max(0, k - MAX_QUEUE_LEN)
            /\ QueueLen(q) = U32(0, m)
            /\ StoredCount(q) = m
            /\ \A i \in 1 .. m :
                  /\ Pending(q, i).packet = s3.sent[i]
                  /\ Pending(q, i).type = DPIF_UC_MISS
       /\ (s3.phase = "drain" /\ last.op = "recv") =>
            /\ s3.n_got <= m
            /\ last.ret = "OK"
            /\ last.upcall.packet = s3.sent[s3.n_got]
            /\ last.upcall.type = DPIF_UC_MISS
            /\ n_missed = k
       /\ (s3.phase = "done" /\ last.op = "recv") =>
            /\ s3.n_got = m + 1
            /\ last.ret = "EAGAIN"
\* more frames than the queue holds were injected, and the queue was
\* drained until EAGAIN
C3_Witness ==
    /\ s3.phase = "done"
    /\ last.op = "recv"
    /\ Len(s3.sent) > MAX_QUEUE_LEN
    /\ n_lost = Len(s3.sent) - MAX_QUEUE_LEN

\* C4: recv returns the oldest MISS record when the MISS queue holds one,
\* else the oldest ACTION record, and removes just that record; it returns
\* EAGAIN exactly when both queues are empty, and then changes neither the
\* queues nor the counters.
C4_RecvOrder ==
    [][last'.op = "recv" =>
        LET sm == Stored(queues[DPIF_UC_MISS])
            sa == Stored(queues[DPIF_UC_ACTION])
        IN IF sm # {}
           THEN /\ last'.ret = "OK"
                /\ last'.upcall = Oldest(sm)
                /\ Stored(queues'[DPIF_UC_MISS]) = sm \ {Oldest(sm)}
                /\ queues'[DPIF_UC_ACTION] = queues[DPIF_UC_ACTION]
           ELSE IF sa # {}
           THEN /\ last'.ret = "OK"
                /\ last'.upcall = Oldest(sa)
                /\ Stored(queues'[DPIF_UC_ACTION]) = sa \ {Oldest(sa)}
                /\ queues'[DPIF_UC_MISS] = queues[DPIF_UC_MISS]
           ELSE /\ last'.ret = "EAGAIN"
                /\ UNCHANGED <<queues, n_hit, n_missed, n_lost, flow_table>>
    ]_vars
\* recv fell through the empty MISS queue and took an ACTION record while
\* a second one stayed queued
C4_Witness ==
    /\ last.op = "recv"
    /\ last.ret = "OK"
    /\ last.upcall.type = DPIF_UC_ACTION
    /\ StoredCount(queues[DPIF_UC_ACTION]) > 0

(***************************************************************************)
(* Properties of the flow table.                                           *)
(***************************************************************************)
\* a key flow_put and flow_del reject: an attribute stream that does not
\* parse, or an in_port that is neither a port number nor LOCAL nor NONE
Malformed(nl) ==
    \/ ~nl.ok
    \/ nl.odp_in_port \notin (0 .. MAX_PORTS - 1) \cup {OFPP_LOCAL, OFPP_NONE}
KeyOf(nl) == FlowKey(nl.odp_in_port, nl.hdr)
Present(table, nl) == table[KeyOf(nl)] # <<>>
KeySet(table) == { k \in DOMAIN table : table[k] # <<>> }
Counters(flow) ==
    Stats(flow.packet_count, flow.byte_count, flow.used, flow.tcp_flags)

\* C6: the outcome of flow_put by key and flags.  A malformed key: EINVAL.
\* Key absent: with CREATE the flow is inserted with zeroed stats and the
\* given actions if the table holds fewer than MAX_FLOWS flows, else EFBIG;
\* without CREATE, ENOENT.  Key present: with MODIFY the actions are
\* replaced, the key set and the other flows are unchanged; without MODIFY,
\* EEXIST.  Every failing put leaves the table unchanged, and flow_del of a
\* present key removes just that flow, which makes room for a CREATE.
C6_FlowPutOutcome ==
    [][ /\ last'.op = "flow_put" =>
            LET nl == last'.key
                fl == last'.flags
                k == KeyOf(nl)
            IN IF Malformed(nl)
               THEN last'.ret = "EINVAL" /\ flow_table' = flow_table
               ELSE IF ~Present(flow_table, nl)
               THEN IF "CREATE" \in fl
                    THEN IF Cardinality(KeySet(flow_table)) < MAX_FLOWS
                         THEN /\ last'.ret = "OK"
                              /\ Len(flow_table'[k]) = 1
                              /\ Counters(flow_table'[k][1]) = ZeroStats
                              /\ flow_table'[k][1].key = k
                              /\ flow_table'[k][1].actions = last'.actions
                              /\ \A o \in FlowKeys \ {k} :
                                    flow_table'[o] = flow_table[o]
                         ELSE /\ last'.ret = "EFBIG"
                              /\ flow_table' = flow_table
                              /\ Cardinality(KeySet(flow_table)) = MAX_FLOWS
                    ELSE last'.ret = "ENOENT" /\ flow_table' = flow_table
               ELSE IF "MODIFY" \in fl
                    THEN /\ last'.ret = "OK"
                         /\ Len(flow_table'[k]) = 1
                         /\ flow_table'[k][1].actions = last'.actions
                         /\ flow_table'[k][1].key = k
                         /\ KeySet(flow_table') = KeySet(flow_table)
                         /\ \A o \in FlowKeys \ {k} :
                               flow_table'[o] = flow_table[o]
                    ELSE last'.ret = "EEXIST" /\ flow_table' = flow_table
        /\ last'.op = "flow_del" =>
            IF Malformed(last'.key)
            THEN last'.ret = "EINVAL" /\ flow_table' = flow_table
            ELSE IF Present(flow_table, last'.key)
                 THEN /\ last'.ret = "OK"
                      /\ flow_table' =
                            [flow_table EXCEPT ![KeyOf(last'.key)] = <<>>]
                 ELSE last'.ret = "ENOENT" /\ flow_table' = flow_table
    ]_vars
\* a CREATE of a new key was refused with EFBIG by a full table
C6_Witness ==
    /\ last.op = "flow_put"
    /\ last.ret = "EFBIG"
    /\ "CREATE" \in last.flags
    /\ ~Present(flow_table, last.key)
    /\ Cardinality(KeySet(flow_table)) = MAX_FLOWS

\* C7: a flow_put that modifies an existing flow reports, when stats are
\* asked for, the counters the flow had before the call; with ZERO_STATS
\* the flow's four counters are 0 afterwards, without it they are unchanged.
\* A put that creates a flow reports zero stats and gives the new flow zero
\* counters; no put changes the counters of another flow, and a failing put
\* changes no counter at all.
C7_ModifyStats ==
    [][last'.op = "flow_put" =>
        LET nl == last'.key
            k == KeyOf(nl)
        IN IF last'.ret # "OK"
           THEN flow_table' = flow_table /\ last'.stats = NoStats
           ELSE /\ \A o \in FlowKeys \ {k} : flow_table'[o] = flow_table[o]
                /\ IF Present(flow_table, nl)
                   THEN LET old == Counters(flow_table[k][1])
                            new == Counters(flow_table'[k][1])
                        IN /\ last'.stats =
                                IF last'.want_stats THEN old ELSE NoStats
                           /\ new = IF "ZERO_STATS" \in last'.flags
                                    THEN ZeroStats ELSE old
                   ELSE /\ Counters(flow_table'[k][1]) = ZeroStats
                        /\ last'.stats =
                              IF last'.want_stats THEN ZeroStats ELSE NoStats
    ]_vars
\* a MODIFY with ZERO_STATS reported the packets of a flow it then zeroed
C7_Witness ==
    /\ last.op = "flow_put"
    /\ last.ret = "OK"
    /\ {"MODIFY", "ZERO_STATS"} \subseteq last.flags
    /\ last.stats.n_packets > 0
    /\ last.stats.tcp_flags > 0
    /\ Counters(flow_table[KeyOf(last.key)][1]) = ZeroStats


\* C5: the flow table never holds more than MAX_FLOWS entries, whatever the
\* interleaving of the flow_put calls of the control threads: a CREATE that
\* finds the table full is refused and the count stays at MAX_FLOWS.
C5_TableBounded == hmap_count(flow_table) <= MAX_FLOWS

\* C8: what a flow_get that runs while another thread is inside
\* flow_put(MODIFY) receives is a complete action list that was given to
\* flow_put, old or new, with the length of that list: never a mixture,
\* never bytes nobody wrote, never a length that differs from the bytes.
C8_AtomicReplace ==
    (last.op = "flow_get" /\ last.ret = "OK") =>
        /\ last.actions \in TActions
        /\ last.actions_len = ActionsLen(last.actions)

(***************************************************************************)
(* Properties of the port set.                                             *)
(***************************************************************************)
InList(port) == \E i \in 1 .. Len(port_list) : port_list[i] = port
\* C9: in every state of a live datapath, also between the steps of a
\* port_add that another thread can observe: ports[i] holds a port iff a
\* port numbered i is in port_list, it is that port, and no two ports of
\* the list have the same number.
C9_PortsMatchList ==
    registered =>
        /\ \A i \in PortNos :
              /\ ports[i] # NullPort =>
                    ports[i].port_no = i /\ InList(ports[i])
              /\ (\E j \in 1 .. Len(port_list) : port_list[j].port_no = i)
                    => ports[i] # NullPort
        /\ \A j, k \in 1 .. Len(port_list) :
              port_list[j].port_no = port_list[k].port_no => j = k

\* a step that completes a successful port_add or port_del
PortSetChanged == last'.op \in {"port_add", "port_del"} /\ last'.ret = "OK"
\* a step that creates the datapath, and with it the LOCAL port
Created == last'.op = "open" /\ ~registered /\ registered'
\* C10 as the specification states it: dp->serial strictly increases on
\* each successful port_add and port_del and on the creation of the LOCAL
\* port, and no other step of a live datapath changes it.
C10_SerialStrictlyIncreases ==
    [][IF PortSetChanged \/ Created
       THEN U32Less(serial, serial')
       ELSE registered' => serial' = serial]_vars
\* C10, amended: dp->serial advances by exactly one modulo 2^32 on each
\* successful port_add and port_del and on the creation of the LOCAL port,
\* which is a strict increase except at the wrap from 2^32 - 1 to 0; failed
\* port_add and port_del and every other operation leave it unchanged.
C10_SerialAdvances ==
    [][IF PortSetChanged \/ Created
       THEN /\ serial' = U32Inc(serial)
            /\ serial # U32(HALF - 1, HALF - 1) => U32Less(serial, serial')
       ELSE registered' => serial' = serial]_vars
\* a successful port_add took dp->serial from 2^32 - 1 to 0
C10_Witness ==
    /\ registered
    /\ last.op = "port_add"
    /\ last.ret = "OK"
    /\ serial = U32Zero
    /\ Len(port_list) = 2

(***************************************************************************)
(* Properties of port_poll.                                                *)
(***************************************************************************)
\* the step is a call of port_poll on handle h
PollStep(h) == last'.op = "port_poll" /\ last'.handle = h
\* the step is a successful port_add or port_del
MutationStep == last'.op \in {"port_add", "port_del"} /\ last'.ret = "OK"
\* port-set changes since handle h was opened or last got ENOBUFS
SerialGap(h) == U32Sub(serial, handles[h].dp_serial)

\* C11 (as stated): every ENOBUFS of port_poll answers exactly one port-set
\* mutation, so that each mutation made while a handle is open gets an
\* ENOBUFS of its own on that handle.
C11_OncePerMutation ==
    [][\A h \in HandleIds :
          PollStep(h) /\ last'.ret = "ENOBUFS" => SerialGap(h) = U32(0, 1)]_vars

\* C11 (amended): port_poll on a handle returns ENOBUFS if dp->serial differs
\* from the handle's dp_serial, that is once for all the mutations (one or
\* more, short of a multiple of 2^32) since the handle was opened or last
\* got ENOBUFS, and EAGAIN otherwise; it leaves the handle's dp_serial equal
\* to dp->serial and touches nothing else, in particular no other handle;
\* a mutation advances dp->serial by one and changes no handle's dp_serial;
\* a handle is opened with dp_serial equal to dp->serial.
C11_PollReportsChange ==
    [][/\ \A h \in HandleIds :
             PollStep(h) =>
                /\ last'.ret = IF handles[h].dp_serial # serial
                               THEN "ENOBUFS" ELSE "EAGAIN"
                /\ handles'[h] = [handles[h] EXCEPT !.dp_serial = serial]
                /\ \A g \in HandleIds \ {h} : handles'[g] = handles[g]
                /\ UNCHANGED <<registered, dp_class, open_cnt, destroyed,
                               ports, port_list, serial, flow_table, queues,
                               pipe, n_hit, n_missed, n_lost, tx>>
       /\ MutationStep =>
             /\ handles' = handles
             /\ serial' = U32Inc(serial)
             /\ \A h \in HandleIds :
                   handles[h].open => SerialGap(h)' = U32Inc(SerialGap(h))
       /\ \A h \in HandleIds :
             ~handles[h].open /\ handles'[h].open =>
                handles'[h].dp_serial = serial']_vars

\* handle 1 has just been told of a change that handle 2, open since
\* before it, has still to be told of
C11_Witness ==
    /\ last.op = "port_poll"
    /\ last.ret = "ENOBUFS"
    /\ last.handle = 1
    /\ n_port_ops >= 1
    /\ handles[2].open
    /\ handles[2].dp_serial # serial
    /\ handles[1].dp_serial = serial

(***************************************************************************)
(* Properties of the LOCAL port.                                           *)
(***************************************************************************)
\* slot 0 and the port list hold the internal port named after the datapath
Slot0Local == ports[OVSP_LOCAL] = LocalPort /\ InList(LocalPort)

\* C12: while the datapath is registered, slot 0 holds the LOCAL internal
\* port named after the datapath; port_del(0) returns EINVAL and changes
\* nothing; port_add, whatever number it is given, leaves slot 0 as it is and
\* never returns 0 as the new port's number; an open(create) whose LOCAL
\* port cannot be created fails and leaves the datapath unregistered and
\* everything else unchanged.
C12_LocalPort ==
    [][/\ registered => Slot0Local
       /\ registered' => Slot0Local'
       /\ last'.op = "port_del" /\ last'.port_no = OVSP_LOCAL =>
             last'.ret = "EINVAL" /\ UNCHANGED dpvars
       /\ last'.op = "port_add" =>
             /\ ports'[OVSP_LOCAL] = ports[OVSP_LOCAL]
             /\ last'.ret = "OK" => last'.port_no # OVSP_LOCAL
       /\ last'.op = "open" /\ ~registered /\ last'.create
          /\ last'.dev_error # "OK" =>
             /\ last'.ret = last'.dev_error
             /\ ~registered'
             /\ UNCHANGED dpvars]_vars

\* port_del(0) has just been refused on a datapath that has another port
C12_Witness ==
    /\ last.op = "port_del"
    /\ last.port_no = OVSP_LOCAL
    /\ last.ret = "EINVAL"
    /\ registered
    /\ Len(port_list) >= 2

(***************************************************************************)
(* Properties of port_add.                                                 *)
(***************************************************************************)
\* the slots of [1, MAX_PORTS) that hold no port
FreeSlots == { i \in LongPortNos \ {OVSP_LOCAL} : ports[i] = NullPort }
\* the number a name carries: its first run of digits, plus 100 if the name
\* starts with "br"; -1 if it has no digit.  Numbers beyond every slot are
\* all given as NoSlot.
NoSlot == HALF
RECURSIVE Decimal(_, _, _)
Decimal(name, i, acc) ==
    IF i > Len(name) \/ ~isdigit(name[i]) THEN acc
    ELSE Decimal(name, i + 1, Min(NoSlot, acc * 10 + DigitVal(name[i])))
NameNumber(name) ==
    IF FirstDigit(name, 1) = 0 THEN -1
    ELSE Min(NoSlot, Decimal(name, FirstDigit(name, 1), 0)
                     + (IF strncmp_br(name) THEN 100 ELSE 0))
\* ports, port_list and serial after slot n has been bound to device name
Bound(n, name) ==
    /\ ports' = [ports EXCEPT ![n] = Port(n, name, "dummy")]
    /\ port_list' = Append(port_list, Port(n, name, "dummy"))
    /\ serial' = U32Inc(serial)

\* C13: port_add with an explicit number n returns EFBIG if n >= MAX_PORTS
\* and EBUSY if slot n is occupied, leaving ports, port_list and serial
\* unchanged; port_add with ANY returns EFBIG, again changing nothing, when
\* no slot of [1, MAX_PORTS) is free, and otherwise (the device opening)
\* binds the port to a slot that was free: the number carried by the name,
\* offset by 100 for names starting with "br", if the class is not the
\* default one and that slot is free, else the lowest free slot.
C13_PortAddNumber ==
    [][last'.op = "port_add" =>
          LET n == last'.port_nop
              name == last'.devname
              quiet == UNCHANGED <<ports, port_list, serial>>
          IN /\ n # ANY_PORT /\ n >= LongMaxPorts =>
                   last'.ret = "EFBIG" /\ quiet
             /\ n # ANY_PORT /\ n < LongMaxPorts /\ ports[n] # NullPort =>
                   last'.ret = "EBUSY" /\ quiet
             /\ n # ANY_PORT /\ n < LongMaxPorts /\ ports[n] = NullPort
                /\ last'.dev_error = "OK" =>
                   last'.ret = "OK" /\ last'.port_no = n /\ Bound(n, name)
             /\ n = ANY_PORT /\ FreeSlots = {} =>
                   last'.ret = "EFBIG" /\ quiet
             /\ n = ANY_PORT /\ FreeSlots # {} /\ last'.dev_error = "OK" =>
                   /\ last'.ret = "OK"
                   /\ last'.port_no \in FreeSlots
                   /\ last'.port_no =
                         IF dp_class # "netdev" /\ NameNumber(name) \in FreeSlots
                         THEN NameNumber(name)
                         ELSE CHOOSE i \in FreeSlots :
                                 \A j \in FreeSlots : i <= j
                   /\ Bound(last'.port_no, name)
             /\ last'.ret # "OK" => quiet]_vars

\* a dummy datapath has bound "br1" to slot 101 while lower slots were free
C13_Witness ==
    /\ last.op = "port_add"
    /\ last.port_nop = ANY_PORT
    /\ last.devname = <<"b", "r", "1">>
    /\ last.ret = "OK"
    /\ last.port_no = 101
    /\ ports[1] = NullPort

(***************************************************************************)
(* Properties of the port dump.                                            *)
(***************************************************************************)
\* how often the dump of thread t has returned port p
TimesDumped(t, p) ==
    Cardinality({ i \in 1 .. Len(thr[t].dumped) : thr[t].dumped[i] = p })

\* C14: a port dump returns ports in strictly ascending order of their
\* numbers, at most MAX_PORTS of them, so that no port is returned twice;
\* when it has ended with EOF, every port that was there at dump_start and
\* at every dump_next has been returned exactly once, whatever other ports
\* were added or deleted between the calls.
C14_DumpOnce ==
    \A t \in Threads :
       LET dumped == thr[t].dumped
       IN /\ \A i, j \in 1 .. Len(dumped) :
                i < j => dumped[i].port_no < dumped[j].port_no
          /\ Len(dumped) <= MAX_PORTS
          /\ thr[t].pc = "dump_eof" =>
                \A p \in thr[t].stable : TimesDumped(t, p) = 1

\* a dump has ended after two port-set changes made between its calls: of
\* the two ports it returned only the LOCAL port was there throughout, and
\* one port of the datapath was not returned at all
C14_Witness ==
    /\ thr[1].pc = "dump_eof"
    /\ n_port_ops = 2
    /\ thr[1].stable = {LocalPort}
    /\ Len(thr[1].dumped) = 2
    /\ Cardinality(LivePorts) = 2
    /\ \E p \in LivePorts : TimesDumped(1, p) = 0

(***************************************************************************)
(* Properties of open, close and destroy.                                  *)
(***************************************************************************)
\* the datapath as create_dp_netdev leaves it, before the first handle
Fresh(class) ==
    [NoDp EXCEPT !.registered = TRUE, !.dp_class = class,
                 !.ports[OVSP_LOCAL] = LocalPort,
                 !.port_list = <<LocalPort>>, !.serial = U32(0, 1),
                 !.tx = tx]
\* handle h has been added to datapath d and nothing else has changed
Opened(d, h) ==
    Dp' = [d EXCEPT !.open_cnt = @ + 1,
                    !.handles[h] = [open |-> TRUE, dp_serial |-> d.serial]]

\* C15: open(class, name, create) of an unregistered name returns ENODEV
\* if create is false, and if create is true registers a new datapath of
\* that class with open_cnt = 1 (or fails with the error of the LOCAL
\* port's device); of a name registered with another class it returns
\* EINVAL whatever create is; of a name registered with the same class it
\* returns EEXIST if create is true and otherwise adds a handle and
\* increments open_cnt by exactly 1.  Every failing open changes nothing.
C15_OpenOutcome ==
    [][last'.op = "open" =>
          LET h == last'.handle
              class == last'.class
              create == last'.create
          IN /\ ~registered /\ ~create =>
                   last'.ret = "ENODEV"
             /\ ~registered /\ create /\ last'.dev_error = "OK" =>
                   /\ last'.ret = "OK"
                   /\ Opened(Fresh(class), h)
                   /\ open_cnt' = 1
             /\ ~registered /\ create /\ last'.dev_error # "OK" =>
                   last'.ret = last'.dev_error
             /\ registered /\ dp_class # class =>
                   last'.ret = "EINVAL"
             /\ registered /\ dp_class = class /\ create =>
                   last'.ret = "EEXIST"
             /\ registered /\ dp_class = class /\ ~create =>
                   /\ last'.ret = "OK"
                   /\ Opened(Dp, h)
             /\ last'.ret # "OK" => UNCHANGED dpvars]_vars

\* a second handle has been opened on a datapath that has ports and is
\* marked destroyed
C15_Witness ==
    /\ last.op = "open"
    /\ last.ret = "OK"
    /\ ~last.create
    /\ open_cnt = 2
    /\ destroyed
    /\ Len(port_list) >= 2

\* the handles opened and not yet closed
OpenHandles == { h \in HandleIds : handles[h].open }
\* open_cnt counts the open handles; a destroyed datapath with no handle
\* is not registered; only a registered datapath has handles
Counted ==
    /\ open_cnt = Cardinality(OpenHandles)
    /\ open_cnt >= 0
    /\ ~(registered /\ destroyed /\ open_cnt = 0)
    /\ ~registered => open_cnt = 0 /\ ~destroyed

\* C16: open_cnt always equals the number of handles opened and not yet
\* closed; no state has a registered datapath with destroyed set and
\* open_cnt = 0; a datapath leaves the registry only by the close that
\* takes open_cnt to 0 while destroyed is set, and that close frees it; a
\* close that leaves open_cnt > 0, or the last close of a datapath not
\* marked destroyed, only closes the handle and keeps everything else.
C16_Registered ==
    [][/\ Counted
       /\ Counted'
       /\ registered /\ ~registered' =>
             last'.op = "close" /\ destroyed /\ open_cnt = 1
       /\ last'.op = "close" /\ registered /\ open_cnt' < open_cnt =>
             IF open_cnt = 1 /\ destroyed
             THEN Dp' = [NoDp EXCEPT !.tx = tx]
             ELSE \E h \in OpenHandles :
                     Dp' = [Dp EXCEPT !.open_cnt = @ - 1,
                                      !.handles[h] = ClosedHandle]]_vars

\* the last handle of a datapath that has ports and is not marked
\* destroyed has been closed: the datapath is still registered
C16_Witness ==
    /\ last.op = "close"
    /\ registered
    /\ ~destroyed
    /\ open_cnt = 0
    /\ Len(port_list) >= 2

(***************************************************************************)
(* Properties of the packet path.                                          *)
(***************************************************************************)
\* the frame of a port_input step, the key extracted from it, and whether
\* a flow with that key is in the table
InputStep == last'.op = "port_input"
InputPacket == last'.upcall.packet
InputKey == FlowKey(last'.port_no, InputPacket.hdr)
InputHits ==
    /\ InputPacket.size >= ETH_HEADER_LEN
    /\ InputKey \in DOMAIN flow_table
    /\ flow_table[InputKey] # <<>>
RECURSIVE SumPackets(_, _)
\* the sum of packet_count over the flows of the table
SumPackets(table, keys) ==
    IF keys = {} THEN 0
    ELSE LET k == CHOOSE x \in keys : TRUE
         IN (IF table[k] = <<>> THEN 0 ELSE Head(table[k]).packet_count)
            + SumPackets(table, keys \ {k})
PacketSum == SumPackets(flow_table, DOMAIN flow_table)
\* the step zeroes or deletes flow statistics
ZeroingStep ==
    \/ last'.op \in {"flow_del", "flow_flush", "close"}
    \/ last'.op = "flow_put" /\ "ZERO_STATS" \in last'.flags

\* C17: on each hit the matched flow's packet_count grows by 1, its
\* byte_count by the packet's size, its tcp_flags are OR-ed with the
\* packet's TCP flags, no other flow changes and n_hit grows by 1; the
\* sum of packet_count over all flows equals n_hit at creation, and
\* n_hit minus that sum is changed by no step (between packets) other than
\* a ZERO_STATS flow_put or a flow deletion.
C17_HitCounts ==
    /\ PacketSum = n_hit
    /\ [][/\ InputStep /\ InputHits =>
               LET old == Head(flow_table[InputKey])
               IN /\ flow_table'[InputKey] =
                        <<[old EXCEPT
                              !.used = now,
                              !.packet_count = @ + 1,
                              !.byte_count = @ + InputPacket.size,
                              !.tcp_flags = BitOr(@, InputPacket.tcp)]>>
                        \o Tail(flow_table[InputKey])
                  /\ \A k \in DOMAIN flow_table \ {InputKey} :
                        flow_table'[k] = flow_table[k]
                  /\ n_hit' = n_hit + 1
          /\ InputStep /\ ~InputHits =>
               flow_table' = flow_table /\ n_hit' = n_hit
          /\ ~ZeroingStep => PacketSum' - n_hit' = PacketSum - n_hit]_vars

\* three frames have hit the two flows of the table, which has seen no
\* zeroing: one flow has both TCP flags from two packets
C17_Witness ==
    /\ last.op = "port_input"
    /\ n_hit = 3
    /\ PacketSum = 3
    /\ \A k \in { FlowKey(1, "h1"), FlowKey(2, "h1") } :
          flow_table[k] # <<>> /\ Head(flow_table[k]).packet_count >= 1
    /\ \E k \in DOMAIN flow_table :
          /\ flow_table[k] # <<>>
          /\ Head(flow_table[k]).tcp_flags = 3
          /\ Head(flow_table[k]).byte_count = 128

\* the MISS upcall that port_input makes of its frame
MissUpcall ==
    Upcall(DPIF_UC_MISS, NlKey(TRUE, InputKey.in_port, InputKey.hdr), "none",
           InputPacket)

\* C18: a port_input of a frame shorter than an Ethernet header changes
\* nothing of the datapath; of any other frame it adds 1 to n_hit and
\* nothing to n_missed if the table holds a flow whose key is the one
\* extracted from the frame with in_port the receiving port's number, and
\* otherwise adds 1 to n_missed and nothing to n_hit, leaves the flow table
\* and the ACTION queue alone, and either stores one MISS upcall with that
\* key and the packet at the head of the MISS queue or, if that queue
\* holds MAX_QUEUE_LEN records, adds 1 to n_lost and drops the frame.
C18_PortInput ==
    [][InputStep =>
          IF InputPacket.size < ETH_HEADER_LEN
          THEN UNCHANGED dpvars
          ELSE IF InputHits
          THEN n_hit' = n_hit + 1 /\ n_missed' = n_missed
          ELSE LET q == queues[DPIF_UC_MISS]
                   slot == U32AndMask(q.head)
               IN /\ n_missed' = n_missed + 1
                  /\ n_hit' = n_hit
                  /\ flow_table' = flow_table
                  /\ queues'[DPIF_UC_ACTION] = queues[DPIF_UC_ACTION]
                  /\ tx' = tx
                  /\ IF StoredCount(q) = MAX_QUEUE_LEN
                     THEN /\ n_lost' = n_lost + 1
                          /\ queues' = queues
                     ELSE /\ n_lost' = n_lost
                          /\ queues'[DPIF_UC_MISS] =
                                [q EXCEPT
                                    !.head = U32Inc(q.head),
                                    !.upcalls[slot] = MissUpcall]
                          /\ StoredCount(queues'[DPIF_UC_MISS])
                                = StoredCount(q) + 1]_vars

\* a frame has missed although the table holds a flow with its header and
\* another in_port, and has been dropped because the MISS queue was full
C18_Witness ==
    /\ last.op = "port_input"
    /\ last.port_no = 1
    /\ last.upcall.packet.size >= ETH_HEADER_LEN
    /\ flow_table[FlowKey(1, "h1")] = <<>>
    /\ flow_table[FlowKey(2, "h1")] # <<>>
    /\ n_missed = 3
    /\ n_lost = 1
    /\ StoredCount(queues[DPIF_UC_MISS]) = MAX_QUEUE_LEN

(***************************************************************************)
(* Properties of the OUTPUT action.                                        *)
(***************************************************************************)
\* the actions a step runs: those given to a successful execute, those of
\* the flow a port_input hits, none otherwise
StepActions ==
    IF last'.op = "execute" /\ last'.ret = "OK" THEN last'.actions
    ELSE IF InputStep /\ InputHits THEN Head(flow_table[InputKey]).actions
    ELSE <<>>
\* how many OUTPUT actions of the list name a slot that holds a port on
\* device dev
Outputs(actions, dev) ==
    Cardinality({ i \in 1 .. Len(actions) :
                    /\ actions[i].type = "OVS_ACTION_ATTR_OUTPUT"
                    /\ actions[i].arg \in PortNos
                    /\ ports[actions[i].arg] # NullPort
                    /\ ports[actions[i].arg].netdev = dev })

C20_Sample ==
    [][\A p \in {U32Zero, U32Max} :
          StepActions = SampleThenOutput(p) =>
             /\ tx'[ports[2].netdev] =
                   tx[ports[2].netdev] + (IF p = U32Max THEN 1 ELSE 0)
             /\ tx'[ports[1].netdev] = tx[ports[1].netdev] + 1]_vars
\* an execute with p = 2^32 - 1 whose draw was 2^32 - 1: the packet went to
\* the port after the SAMPLE and not to port 2
C20_Witness ==
    /\ last.op = "execute" /\ last.ret = "OK"
    /\ last.actions = SampleThenOutput(U32Max)
    /\ last.random = <<U32Max>>
    /\ n_frames = 1
    /\ tx[ports[1].netdev] = 1
    /\ tx[ports[2].netdev] = 0

(***************************************************************************)
(* execute.                                                                *)
(***************************************************************************)
\* the key names a port a flow can come from
ExecKeyValid(nl) ==
    /\ nl.ok
    /\ nl.odp_in_port \in PortNos \cup {OFPP_LOCAL, OFPP_NONE}
\* the packet as the i-th action of the list finds it
PacketAt(actions, i, packet) ==
    [packet EXCEPT !.size =
        @ + 4 * Cardinality({ j \in 1 .. i - 1 :
                    actions[j].type = "OVS_ACTION_ATTR_PUSH_VLAN" })]
\* every USERSPACE action of the step has queued the upcall it should, or
\* has been counted in n_lost: the lists of ExecActions hold at most one
ExecUpcalls(actions, nl, packet) ==
    \A i \in 1 .. Len(actions) :
       actions[i].type = "OVS_ACTION_ATTR_USERSPACE" =>
          LET q == queues[DPIF_UC_ACTION]
          IN IF QueueHasRoom(q)
             THEN /\ queues'[DPIF_UC_ACTION].upcalls[U32AndMask(q.head)] =
                       Upcall(DPIF_UC_ACTION, nl, actions[i].userdata,
                              PacketAt(actions, i, packet))
                  /\ queues'[DPIF_UC_ACTION].head = U32Inc(q.head)
                  /\ n_lost' = n_lost
             ELSE /\ queues' = queues
                  /\ n_lost' = n_lost + 1

\* C21: execute returns EINVAL and runs no action when the packet is
\* shorter than an Ethernet header, longer than 65535 bytes, or the key is
\* not a valid flow key; otherwise it returns 0 and runs the actions on a
\* copy of the packet with the key supplied: OUTPUT actions send, USERSPACE
\* actions queue an ACTION upcall that carries the supplied key and the
\* copy as the earlier actions have changed it, or count in n_lost.  In
\* every case the caller's packet, the flow table with the statistics of
\* its flows, n_hit and n_missed are as before.
C21_Execute ==
    [][last'.op = "execute" =>
          LET packet == last'.upcall.packet
              nl == last'.key
              actions == last'.actions
          IN /\ last'.packet = packet
             /\ UNCHANGED <<flow_table, n_hit, n_missed, ports, port_list,
                            serial, registered, open_cnt, handles>>
             /\ IF \/ packet.size < 14
                   \/ packet.size > 65535
                   \/ ~ExecKeyValid(nl)
                THEN /\ last'.ret = "EINVAL"
                     /\ UNCHANGED <<tx, queues, pipe, n_lost>>
                ELSE /\ last'.ret = "OK"
                     /\ \A dev \in DOMAIN tx :
                           tx'[dev] = tx[dev] + Outputs(actions, dev)
                     /\ ExecUpcalls(actions, nl, packet)]_vars
\* an execute of PUSH_VLAN, USERSPACE, OUTPUT on the largest packet there
\* can be, with flows hit and missed before: the upcall is queued, the
\* packet sent, the caller's packet as it was
C21_Witness ==
    /\ last.op = "execute" /\ last.ret = "OK"
    /\ last.actions = <<PushVlan(1), Userspace("ud"), Output(2)>>
    /\ last.upcall.packet.size = UINT16_MAX
    /\ last.packet = last.upcall.packet
    /\ n_hit >= 1 /\ n_missed >= 1
    /\ tx[ports[2].netdev] >= 1
    /\ \E i \in 0 .. QUEUE_MASK :
          /\ queues[DPIF_UC_ACTION].upcalls[i].packet.size = UINT16_MAX + 4
          /\ queues[DPIF_UC_ACTION].upcalls[i].key = last.key

(***************************************************************************)
(* get_stats.                                                              *)
(***************************************************************************)
\* C22: the {n_flows, n_hit, n_missed, n_lost} that get_stats returns are
\* the values the four counters had together in one state of the datapath
\* between the call and its return, whatever the worker and the other
\* control threads do meanwhile.
C22_AtomicSnapshot == last.op = "get_stats" => last.dp_stats \in last.seen
\* a get_stats that returns a flow count from before the flow was put and
\* a miss count from after the miss that followed
C22_Witness ==
    /\ last.op = "get_stats"
    /\ last.dp_stats = DpStats(0, 0, 1, 0)
    /\ n_missed = 1 /\ hmap_count(flow_table) = 1
    /\ Cardinality(last.seen) = 3

(***************************************************************************)
(* The producer and the consumers of an upcall queue.                      *)
(***************************************************************************)
\* thread t has taken a slot of queue i that it has not written yet, and
\* the slot is still in the queue
Unwritten(t, i) ==
    /\ thr[t].pc = "push_write"
    /\ thr[t].queue_no = i
    /\ ~U32Less(thr[t].head, queues[i].tail)
\* C23: a slot is in the queue (head is past it) only once its record is
\* written, so that a recv never returns, and a recv_purge never releases,
\* a slot that a push running at the same time has yet to write.
C23_PublishAfterWrite ==
    [][/\ (last'.op = "recv" /\ last'.ret = "OK") =>
             \A t \in Threads :
                ~(/\ Unwritten(t, find_nonempty_queue(Dp))
                  /\ thr[t].head = queues[find_nonempty_queue(Dp)].tail)
       /\ last'.op = "recv_purge" =>
             \A t \in Threads, i \in Queues : ~Unwritten(t, i)]_vars
\* a recv that returned 0 with the record of no frame, from a slot the
\* worker, still in output_userspace, writes afterwards
C23_Witness ==
    /\ last.op = "recv" /\ last.ret = "OK"
    /\ last.upcall = NoUpcall
    /\ thr[2].pc = "push_signal"
    /\ queues[DPIF_UC_MISS].head = queues[DPIF_UC_MISS].tail
    /\ queues[DPIF_UC_MISS].upcalls[U32AndMask(thr[2].head)] = thr[2].upcall

(***************************************************************************)
(* The signaling pipe.                                                     *)
(***************************************************************************)
\* the upcall of frame id is in queue i: written by its push, in a slot
\* between tail and head that no later push has taken
Queued(i, id) ==
    \E k \in 0 .. QUEUE_MASK :
       /\ queues[i].upcalls[k].packet.id = id
       /\ \E n \in 0 .. MAX_QUEUE_LEN - 1 :
             /\ n < QueueLen(queues[i]).lo
             /\ U32AndMask(U32Add(queues[i].tail, n)) = k
       /\ \A t \in Threads :
             ~(Unwritten(t, i) /\ U32AndMask(thr[t].head) = k)
WorkerOver == thr[2].pc \in {"dead", "cancelled"}
GreNames == {"gre1", "gre2"}
RegisterResults == {"OK", "EBUSY"}
AllocResults == {"OK", "ENOMEM"}

gre_init(g, register) ==
    LET n == g.ports + 1 IN
    IF n > 1
    THEN [ports |-> n, protocol |-> g.protocol, err |-> "OK"]
    ELSE [ports |-> n, protocol |-> (register = "OK"), err |-> register]

gre_exit(g) ==
    LET n == g.ports - 1 IN
    IF n > 0
    THEN [ports |-> n, protocol |-> g.protocol]
    ELSE [ports |-> n, protocol |-> FALSE]

\* A create that overwrites an occupied slot: the check of the slot left out.
vport_create_over(g, slot, vport, register, alloc) ==
    LET g1 == gre_init(g, register) IN
    IF g1.err # "OK"
    THEN [ports |-> g1.ports, protocol |-> g1.protocol, slot |-> slot,
          ret |-> g1.err]
    ELSE IF alloc # "OK"
    THEN [ports |-> gre_exit(g1).ports, protocol |-> gre_exit(g1).protocol,
          slot |-> slot, ret |-> alloc]
    ELSE [ports |-> g1.ports, protocol |-> g1.protocol, slot |-> vport,
          ret |-> "OK"]

\* The body shared by gre_create and gre64_create: `slot' is the vport the
\* namespace holds of the type, `vport' the one ovs_vport_alloc would give.
vport_create(g, slot, vport, register, alloc) ==
    LET g1 == gre_init(g, register) IN
    IF g1.err # "OK"
    THEN [ports |-> g1.ports, protocol |-> g1.protocol, slot |-> slot,
          ret |-> g1.err]
    ELSE IF slot # NULL
    THEN [ports |-> gre_exit(g1).ports, protocol |-> gre_exit(g1).protocol,
          slot |-> slot, ret |-> "EEXIST"]
    ELSE IF alloc # "OK"
    THEN [ports |-> gre_exit(g1).ports, protocol |-> gre_exit(g1).protocol,
          slot |-> slot, ret |-> alloc]
    ELSE [ports |-> g1.ports, protocol |-> g1.protocol, slot |-> vport,
          ret |-> "OK"]

GreCount == [ports |-> gre_ports, protocol |-> gre_protocol]
KeepDp == UNCHANGED <<dpvars, now, regvars, n_frames, n_port_ops, last, thr, s3>>
\* The record of a create: the results of gre_cisco_register and of
\* ovs_vport_alloc are recorded when the create called them.
GreCreated(op, r, net, name, register, alloc) ==
    [GreLast(op, r.ret) EXCEPT
        !.net = net, !.name = name, !.vport = r.slot, !.ports = r.ports,
        !.protocol = r.protocol,
        !.register = IF gre_ports = 0 THEN register ELSE "none",
        !.alloc = IF r.ret \in {"OK", "ENOMEM"} THEN alloc ELSE "none"]

gre_create(net, name, register, alloc) ==
    LET vport == Vport(name, "gre", net)
        r == vport_create(GreCount, gre_vport[net], vport, register, alloc)
    IN  /\ gre_ports' = r.ports
        /\ gre_protocol' = r.protocol
        /\ gre_vport' = [gre_vport EXCEPT ![net] = r.slot]
        /\ gre_live' = IF r.ret = "OK" THEN gre_live \cup {vport} ELSE gre_live
        /\ gre_last' = GreCreated("gre_create", r, net, name, register,
                            alloc)
        /\ UNCHANGED <<gre64_vport, byte_order>>
        /\ KeepDp

gre64_create(net, name, register, alloc) ==
    LET vport == Vport(name, "gre64", net)
        r == vport_create(GreCount, gre64_vport[net], vport, register, alloc)
    IN  /\ gre_ports' = r.ports
        /\ gre_protocol' = r.protocol
        /\ gre64_vport' = [gre64_vport EXCEPT ![net] = r.slot]
        /\ gre_live' = IF r.ret = "OK" THEN gre_live \cup {vport} ELSE gre_live
        /\ gre_last' = GreCreated("gre64_create", r, net, name, register,
                            alloc)
        /\ UNCHANGED <<gre_vport, byte_order>>
        /\ KeepDp

GreDestroyed(op, g, vport) ==
    [GreLast(op, "OK") EXCEPT
        !.net = vport.net, !.name = vport.name, !.vport = vport,
        !.ports = g.ports, !.protocol = g.protocol]

gre_tnl_destroy(net) ==
    LET vport == gre_vport[net]
        g == gre_exit(GreCount)
    IN  /\ vport # NULL
        /\ gre_vport' = [gre_vport EXCEPT ![net] = NULL]
        /\ gre_live' = gre_live \ {vport}
        /\ gre_ports' = g.ports
        /\ gre_protocol' = g.protocol
        /\ gre_last' = GreDestroyed("gre_tnl_destroy", g, vport)
        /\ UNCHANGED <<gre64_vport, byte_order>>
        /\ KeepDp

gre64_tnl_destroy(net) ==
    LET vport == gre64_vport[net]
        g == gre_exit(GreCount)
    IN  /\ vport # NULL
        /\ gre64_vport' = [gre64_vport EXCEPT ![net] = NULL]
        /\ gre_live' = gre_live \ {vport}
        /\ gre_ports' = g.ports
        /\ gre_protocol' = g.protocol
        /\ gre_last' = GreDestroyed("gre64_tnl_destroy", g, vport)
        /\ UNCHANGED <<gre_vport, byte_order>>
        /\ KeepDp

(***************************************************************************)
(* datapath/vport-gre.c: the send and receive paths.  A value the host     *)
(* computes with is the tuple of its bytes, least significant first;       *)
(* Host turns an object in memory into its value and a value into the      *)
(* object, under the byte order of the build.                              *)
(***************************************************************************)
TUNNEL_CSUM == "TUNNEL_CSUM"
TUNNEL_KEY == "TUNNEL_KEY"
TUNNEL_SEQ == "TUNNEL_SEQ"
TUNNEL_STRICT == "TUNNEL_STRICT"
TUNNEL_DONT_FRAGMENT == "TUNNEL_DONT_FRAGMENT"

Reverse(s) == [i \in 1 .. Len(s) |-> s[Len(s) + 1 - i]]
Host(order, x) == IF order = "__BIG_ENDIAN" THEN Reverse(x) ELSE x
Shr32(v) == SubSeq(v, 5, 8) \o Zero32
Shl32(v) == Zero32 \o SubSeq(v, 1, 4)
Low32(v) == SubSeq(v, 1, 4)
Wide(v) == v \o Zero32
RECURSIVE ByteOr(_, _, _)
ByteOr(a, b, n) ==
    IF n = 0 THEN 0
    ELSE (IF a % 2 = 1 \/ b % 2 = 1 THEN 1 ELSE 0)
         + 2 * ByteOr(a \div 2, b \div 2, n - 1)
Or64(a, b) == [i \in 1 .. 8 |-> ByteOr(a[i], b[i], 8)]

be64_get_low32(order, x) ==
    IF order = "__BIG_ENDIAN"
    THEN Host(order, Low32(Host(order, x)))
    ELSE Host(order, Low32(Shr32(Host(order, x))))

be64_get_high32(order, x) ==
    IF order = "__BIG_ENDIAN"
    THEN Host(order, Low32(Shr32(Host(order, x))))
    ELSE Host(order, Low32(Host(order, x)))

filter_tnl_flags(flags) == flags \cap {TUNNEL_CSUM, TUNNEL_KEY}

\* gre_build_header writes the header of RFC 2784/2890: the key field under
\* the K flag, the sequence field under the S flag.
gre_build_header(tpi) ==
    [flags |-> tpi.flags, proto |-> tpi.proto,
     key |-> IF TUNNEL_KEY \in tpi.flags THEN tpi.key ELSE <<>>,
     seq |-> IF TUNNEL_SEQ \in tpi.flags THEN tpi.seq ELSE <<>>]

\* The GRE demultiplexer parses the header back: a field that is not on the
\* wire reads as zero.
parse_gre_header(frame) ==
    [flags |-> frame.flags, proto |-> frame.proto,
     key |-> IF TUNNEL_KEY \in frame.flags THEN frame.key ELSE Zero32,
     seq |-> IF TUNNEL_SEQ \in frame.flags THEN frame.seq ELSE Zero32]

__build_header(order, tun_key, seq, gre64_flag) ==
    gre_build_header(
        [flags |-> filter_tnl_flags(tun_key.tun_flags) \cup gre64_flag,
         proto |-> "ETH_P_TEB",
         key |-> be64_get_low32(order, tun_key.tun_id),
         seq |-> seq])

\* key_to_tunnel_id with the two branches exchanged.
key_to_tunnel_id_swapped(order, key, seq) ==
    IF order = "__BIG_ENDIAN"
    THEN Host(order, Or64(Shl32(Wide(Host(order, key))),
                          Wide(Host(order, seq))))
    ELSE Host(order, Or64(Shl32(Wide(Host(order, seq))),
                          Wide(Host(order, key))))

key_to_tunnel_id(order, key, seq) ==
    IF order = "__BIG_ENDIAN"
    THEN Host(order, Or64(Shl32(Wide(Host(order, seq))),
                          Wide(Host(order, key))))
    ELSE Host(order, Or64(Shl32(Wide(Host(order, key))),
                          Wide(Host(order, seq))))

\* What stops __send before the frame is handed to iptunnel_xmit: the route
\* lookup, the expansion of the headroom, or gre_handle_offloads, after
\* which __send returns 0.
SendResults == {"OK", "EHOSTUNREACH", "ENOMEM", "OFFLOAD"}
__send(order, tun_key, seq, gre64_flag, result) ==
    IF result = "OK"
    THEN [ret |-> "OK", frame |-> __build_header(order, tun_key, seq,
                                                 gre64_flag),
          df |-> TUNNEL_DONT_FRAGMENT \in tun_key.tun_flags]
    ELSE [ret |-> IF result = "OFFLOAD" THEN "OK" ELSE result,
          frame |-> NoFrame, df |-> FALSE]

gre_send_result(order, tun_key, result) ==
    IF ~tun_key.present
    THEN [ret |-> "EINVAL", frame |-> NoFrame, df |-> FALSE]
    ELSE __send(order, tun_key, Zero32, {}, result)

gre64_send_result(order, tun_key, result) ==
    IF ~tun_key.present
    THEN [ret |-> "EINVAL", frame |-> NoFrame, df |-> FALSE]
    ELSE __send(order, tun_key, be64_get_high32(order, tun_key.tun_id),
                {TUNNEL_SEQ}, result)

KeepGrePorts ==
    UNCHANGED <<gre_ports, gre_protocol, gre_vport, gre64_vport, gre_live,
                byte_order>>
Sent(op, vport, tun_key, r) ==
    [GreLast(op, r.ret) EXCEPT
        !.net = vport.net, !.vport = vport, !.name = vport.name,
        !.tun_key = tun_key, !.frame = r.frame, !.df = r.df,
        !.sent_by = vport.type]

gre_send(net, tun_key, result) ==
    /\ gre_vport[net] # NULL
    /\ gre_last' = Sent("gre_send", gre_vport[net], tun_key,
                        gre_send_result(byte_order, tun_key, result))
    /\ KeepGrePorts
    /\ KeepDp

gre64_send(net, tun_key, result) ==
    /\ gre64_vport[net] # NULL
    /\ gre_last' = Sent("gre64_send", gre64_vport[net], tun_key,
                        gre64_send_result(byte_order, tun_key, result))
    /\ KeepGrePorts
    /\ KeepDp

\* gre_rcv that falls back to the vport of the other type.
gre_rcv_either(order, gre, gre64, tpi) ==
    LET first == IF TUNNEL_KEY \in tpi.flags /\ TUNNEL_SEQ \in tpi.flags
                 THEN gre64 ELSE gre
        vport == IF first # NULL THEN first
                 ELSE IF first = gre THEN gre64 ELSE gre
    IN  IF vport = NULL
        THEN [ret |-> "PACKET_REJECT", vport |-> NULL, tun_key |-> NoTunKey]
        ELSE [ret |-> "PACKET_RCVD", vport |-> vport,
              tun_key |-> TunKey(key_to_tunnel_id(order, tpi.key, tpi.seq),
                                 filter_tnl_flags(tpi.flags))]

\* gre_rcv in a namespace whose slots hold `gre' and `gre64': the vport the
\* frame is handed to by ovs_vport_receive and the tunnel key it carries.
gre_rcv(order, gre, gre64, tpi) ==
    LET vport == IF TUNNEL_KEY \in tpi.flags /\ TUNNEL_SEQ \in tpi.flags
                 THEN gre64 ELSE gre
    IN  IF vport = NULL
        THEN [ret |-> "PACKET_REJECT", vport |-> NULL, tun_key |-> NoTunKey]
        ELSE [ret |-> "PACKET_RCVD", vport |-> vport,
              tun_key |-> TunKey(key_to_tunnel_id(order, tpi.key, tpi.seq),
                                 filter_tnl_flags(tpi.flags))]

Received(op, net, frame, r) ==
    [GreLast(op, r.ret) EXCEPT
        !.net = net, !.vport = r.vport, !.name = r.vport.name,
        !.frame = frame, !.rcv_key = r.tun_key]

\* A frame from the network arrives in namespace `net'.
GreRcv(net, frame) ==
    /\ gre_protocol
    /\ gre_last' = Received("gre_rcv", net, frame,
                            gre_rcv(byte_order, gre_vport[net],
                                    gre64_vport[net],
                                    parse_gre_header(frame)))
    /\ KeepGrePorts
    /\ KeepDp

\* The frame the last send handed to iptunnel_xmit arrives in namespace
\* `net'.
GreLoop(net) ==
    /\ gre_protocol
    /\ gre_last.op \in {"gre_send", "gre64_send"}
    /\ gre_last.frame # NoFrame
    /\ gre_last' =
           [Received("gre_loop", net, gre_last.frame,
                     gre_rcv(byte_order, gre_vport[net], gre64_vport[net],
                             parse_gre_header(gre_last.frame)))
            EXCEPT !.tun_key = gre_last.tun_key,
                   !.sent_by = gre_last.sent_by]
    /\ KeepGrePorts
    /\ KeepDp

(***************************************************************************)
(* SpecGrePorts: vports of both types are created and destroyed in two     *)
(* namespaces; registration and allocation may fail.                       *)
(***************************************************************************)
InitGrePorts ==
    /\ InitDp(NoDp)
    /\ s3 = S3Off
    /\ InitRest

NextGrePorts ==
    \/ \E net \in Nets, name \in GreNames, register \in RegisterResults,
          alloc \in AllocResults :
            \/ gre_create(net, name, register, alloc)
            \/ gre64_create(net, name, register, alloc)
    \/ \E net \in Nets :
            \/ gre_tnl_destroy(net)
            \/ gre64_tnl_destroy(net)

SpecGrePorts == InitGrePorts /\ [][NextGrePorts]_vars

(***************************************************************************)
(* SpecGre: the traffic of the vports, on a host of either byte order.     *)
(* Namespace 1 holds a vport of each type; namespace 2 holds none, a GRE   *)
(* vport only or a GRE64 vport only.  A tunnel key has an id only together *)
(* with TUNNEL_KEY, as the flow parser builds it; the frames from the      *)
(* network carry any set of flags.                                         *)
(***************************************************************************)
TunIds ==
    { Zero64, <<0, 0, 0, 0, 1, 2, 3, 4>>, <<0, 0, 0, 1, 0, 0, 0, 2>>,
      <<1, 2, 3, 4, 5, 6, 7, 8>> }
TunFlags == SUBSET {TUNNEL_CSUM, TUNNEL_KEY, TUNNEL_DONT_FRAGMENT}
TunKeys ==
    { k \in [present : {TRUE}, tun_id : TunIds, tun_flags : TunFlags] :
        TUNNEL_KEY \in k.tun_flags \/ k.tun_id = Zero64 }
NetFrames ==
    { gre_build_header([flags |-> flags, proto |-> "ETH_P_TEB",
                        key |-> <<5, 6, 7, 8>>, seq |-> <<1, 2, 3, 4>>]) :
        flags \in SUBSET {TUNNEL_CSUM, TUNNEL_KEY, TUNNEL_SEQ,
                          TUNNEL_STRICT} }
PeerVports ==
    { {}, {Vport("gre1", "gre", 2)}, {Vport("gre2", "gre64", 2)} }
Slot(live, type, net) ==
    IF \E v \in live : v.type = type /\ v.net = net
    THEN CHOOSE v \in live : v.type = type /\ v.net = net
    ELSE NULL

InitGreTraffic ==
    /\ InitDp(NoDp)
    /\ s3 = S3Off
    /\ InitIdle
    /\ byte_order \in ByteOrders
    /\ \E peer \in PeerVports :
          gre_live = {Vport("gre1", "gre", 1), Vport("gre2", "gre64", 1)}
                         \cup peer
    /\ gre_vport = [n \in Nets |-> Slot(gre_live, "gre", n)]
    /\ gre64_vport = [n \in Nets |-> Slot(gre_live, "gre64", n)]
    /\ gre_ports = Cardinality(gre_live)
    /\ gre_protocol = TRUE
    /\ gre_last = GreLast("init", "OK")

NextGre ==
    \/ \E net \in Nets, tun_key \in TunKeys \cup {NoTunKey},
          result \in SendResults :
            \/ gre_send(net, tun_key, result)
            \/ gre64_send(net, tun_key, result)
    \/ \E net \in Nets :
            \/ \E frame \in NetFrames : GreRcv(net, frame)
            \/ GreLoop(net)

SpecGre == InitGreTraffic /\ [][NextGre]_vars

(***************************************************************************)
(* Properties of the GRE vports.                                           *)
(***************************************************************************)
GreTypes == {"gre", "gre64"}
LiveOf(type, net) == { v \in gre_live : v.type = type /\ v.net = net }

\* What a create of the type does to the slot of its namespace: `before'
\* and `after' are the slot before and after the step.
CreateStep(type, before, after) ==
    LET name == gre_last'.name
        net == gre_last'.net
    IN  /\ before # NULL =>
              /\ gre_last'.ret = "EEXIST"
              /\ after = before
              /\ UNCHANGED <<gre_ports, gre_protocol, gre_vport, gre64_vport,
                             gre_live>>
        /\ before = NULL =>
              /\ gre_last'.ret # "EEXIST"
              /\ gre_last'.register # "EBUSY" /\ gre_last'.alloc # "ENOMEM" =>
                     gre_last'.ret = "OK"
              /\ gre_last'.ret = "OK" =>
                     /\ after = Vport(name, type, net)
                     /\ gre_live' = gre_live \cup {after}

\* C26: a namespace holds at most one GRE and at most one GRE64 vport; a
\* create of a type the namespace already holds returns EEXIST and leaves
\* the registered vport, the live vports and gre_ports as they were; a
\* destroy empties the slot, and a create into an empty slot never returns
\* EEXIST and succeeds when registration and allocation do.
C26_Singleton ==
    /\ [](\A type \in GreTypes, net \in Nets :
              Cardinality(LiveOf(type, net)) <= 1)
    /\ [][/\ gre_last'.op = "gre_create" =>
                 CreateStep("gre", gre_vport[gre_last'.net],
                            gre_vport'[gre_last'.net])
          /\ gre_last'.op = "gre64_create" =>
                 CreateStep("gre64", gre64_vport[gre_last'.net],
                            gre64_vport'[gre_last'.net])
          /\ gre_last'.op = "gre_tnl_destroy" =>
                 gre_vport'[gre_last'.net] = NULL
          /\ gre_last'.op = "gre64_tnl_destroy" =>
                 gre64_vport'[gre_last'.net] = NULL]_vars

\* A create of a second GRE vport was refused in a namespace that holds a
\* vport of each type, and the first one is still registered.
C26_Witness ==
    /\ gre_last.op = "gre_create"
    /\ gre_last.ret = "EEXIST"
    /\ gre_vport[gre_last.net] # NULL
    /\ gre_vport[gre_last.net].name # gre_last.name
    /\ gre64_vport[gre_last.net] # NULL
    /\ gre_ports = Cardinality(gre_live)

\* C27: gre_ports is the number of live GRE and GRE64 vports, and the
\* protocol handler is registered exactly while gre_ports is positive.
C27_PortCount ==
    /\ gre_ports = Cardinality(gre_live)
    /\ gre_protocol <=> gre_ports > 0

\* After a create whose registration failed, a later create succeeded
\* without registering: a vport is live and no handler receives for it.
C27_Witness ==
    /\ gre_live # {}
    /\ ~gre_protocol
    /\ gre_ports = Cardinality(gre_live) + 1

High32(tun_id) == SubSeq(tun_id, 1, 4)
Low32Of(tun_id) == SubSeq(tun_id, 5, 8)
Looped == gre_last.op = "gre_loop" /\ gre_last.ret = "PACKET_RCVD"

Arrived == gre_last.op \in {"gre_rcv", "gre_loop"}
KeyAndSeq(flags) == TUNNEL_KEY \in flags /\ TUNNEL_SEQ \in flags
TypeFor(flags) == IF KeyAndSeq(flags) THEN "gre64" ELSE "gre"

\* C29: a received frame goes to the GRE64 vport of its namespace exactly
\* when its header has both KEY and SEQ, and to the GRE vport otherwise,
\* with the tunnel flags of the packet filtered to {CSUM, KEY}; when the
\* namespace has no vport of the selected type the frame is rejected and
\* delivered to no vport.
C29_Dispatch ==
    Arrived =>
        LET selected == LiveOf(TypeFor(gre_last.frame.flags), gre_last.net)
        IN  /\ selected = {} =>
                  gre_last.ret = "PACKET_REJECT" /\ gre_last.vport = NULL
            /\ selected # {} =>
                  /\ gre_last.ret = "PACKET_RCVD"
                  /\ gre_last.vport \in selected
                  /\ gre_last.rcv_key.tun_flags =
                         gre_last.frame.flags \cap {TUNNEL_CSUM, TUNNEL_KEY}

\* A frame with KEY and SEQ was rejected in a namespace that holds a GRE
\* vport and no GRE64 vport.
C29_Witness ==
    /\ Arrived
    /\ KeyAndSeq(gre_last.frame.flags)
    /\ gre_last.ret = "PACKET_REJECT"
    /\ LiveOf("gre", gre_last.net) # {}
    /\ LiveOf("gre64", gre_last.net) = {}

Transmitted(op) == gre_last.op = op /\ gre_last.frame # NoFrame

\* C30: a frame sent through a GRE64 vport carries the flags KEY and SEQ,
\* CSUM exactly when the tunnel key asks for it and no other flag, the low
\* 32 bits of the tunnel id as key and the high 32 bits as sequence number;
\* a frame sent through a GRE vport carries flags of {CSUM, KEY} only and
\* the low 32 bits as key; a send without a tunnel key returns EINVAL and
\* transmits nothing.
C30_WireFormat ==
    /\ Transmitted("gre64_send") =>
          /\ gre_last.frame.flags =
                 {TUNNEL_KEY, TUNNEL_SEQ}
                     \cup (gre_last.tun_key.tun_flags \cap {TUNNEL_CSUM})
          /\ gre_last.frame.key = Low32Of(gre_last.tun_key.tun_id)
          /\ gre_last.frame.seq = High32(gre_last.tun_key.tun_id)
    /\ Transmitted("gre_send") =>
          /\ gre_last.frame.flags \subseteq {TUNNEL_CSUM, TUNNEL_KEY}
          /\ TUNNEL_KEY \in gre_last.frame.flags =>
                 gre_last.frame.key = Low32Of(gre_last.tun_key.tun_id)
    /\ gre_last.op \in {"gre_send", "gre64_send"}
       /\ ~gre_last.tun_key.present =>
           gre_last.ret = "EINVAL" /\ gre_last.frame = NoFrame

\* A GRE64 vport transmitted a frame whose header has SEQ and no KEY: the
\* tunnel key of the packet has no TUNNEL_KEY.
C30_Witness ==
    /\ Transmitted("gre64_send")
    /\ gre_last.ret = "OK"
    /\ TUNNEL_KEY \notin gre_last.tun_key.tun_flags
    /\ gre_last.frame.flags = {TUNNEL_SEQ}

(***************************************************************************)
(* Properties of the threaded build: the flow table, the queues and the    *)
(* pipe under concurrent handlers.                                         *)
(***************************************************************************)
\* C38: the flow table never holds two entries with equal keys, whatever
\* the interleaving of the flow operations of the control threads.
C38_UniqueKeys ==
    \A key \in DOMAIN flow_table : Len(flow_table[key]) <= 1

\* Two flow_put(CREATE) of one key have both found no entry and have both
\* inserted theirs: the chain of the key holds two entries.
C38_Witness ==
    /\ last.op = "flow_put"
    /\ last.ret = "OK"
    /\ "CREATE" \in last.flags
    /\ Len(flow_table[KeyOf(last.key)]) = 2
    /\ \A t \in Threads : thr[t].pc = "idle"
\* C39: whenever both upcall queues are empty and no push or recv is in
\* progress, the pipe holds no unread byte, after recv_purge as after a
\* drain of the queues.
C39_PipeSignals ==
    (/\ \A i \in Queues : queues[i].head = queues[i].tail
     /\ \A t \in Threads : thr[t].pc = "idle")
        => pipe = 0

\* recv_purge has emptied the queues and the byte of a push it discarded
\* is still in the pipe.
C39_Witness ==
    /\ last.op = "recv_purge"
    /\ \A i \in Queues : queues[i].head = queues[i].tail
    /\ \A t \in Threads : thr[t].pc = "idle"
    /\ pipe > 0

(***************************************************************************)
(* Properties of the counters.                                             *)
(***************************************************************************)
\* the upcalls of a queue class that the pushes of a step dropped
Dropped(pushes, queue_no) ==
    Cardinality({ i \in 1 .. Len(pushes) :
                    pushes[i].ret = "ENOBUFS" /\ pushes[i].q = queue_no })

KeepProducers ==
    UNCHANGED <<registered, dp_class, open_cnt, destroyed, handles, ports,
                port_list, serial, tx, now, grevars, regvars, n_port_ops, s3>>
ProducerOp(t) == IF t = 2 THEN "port_input" ELSE "execute"
\* if (q->head - q->tail < MAX_QUEUE_LEN) ... else { dp->n_lost++; }
OutputUserspaceTest(t, queue_no, upcall) ==
    /\ IF QueueHasRoom(queues[queue_no])
       THEN /\ thr' = [thr EXCEPT ![t] =
                         [Idle EXCEPT !.pc = "push_load",
                                      !.queue_no = queue_no,
                                      !.upcall = upcall]]
            /\ UNCHANGED <<n_lost, last>>
       ELSE /\ n_lost' = n_lost + 1
            /\ last' = [Last(ProducerOp(t), "OK") EXCEPT
                           !.pushes = <<PushResult(queue_no, "ENOBUFS")>>]
            /\ UNCHANGED thr
    /\ UNCHANGED <<queues, pipe>>
\* dp_netdev_port_input of a frame that hits a flow whose action is
\* USERSPACE, up to the test of dp_netdev_output_userspace
HitUserspace(t, i, f) ==
    /\ registered
    /\ thr[t].pc = "idle"
    /\ n_frames < MaxFrames
    /\ LET packet == Packet(n_frames + 1, f)
           key == flow_extract(packet, port_list[i].port_no)
           flow == dp_netdev_lookup_flow(flow_table, key)
       IN /\ packet.size >= ETH_HEADER_LEN
          /\ flow # NullFlow
          /\ flow.actions = <<Userspace("ud")>>
          /\ flow_table' = [flow_table EXCEPT ![key] =
                               <<dp_netdev_flow_used(flow, packet, now)>>
                               \o Tail(@)]
          /\ n_hit' = n_hit + 1
          /\ OutputUserspaceTest(t, DPIF_UC_ACTION,
                                 Upcall(DPIF_UC_ACTION,
                                        odp_flow_key_from_flow(
                                            key, key.in_port),
                                        "ud", packet))
    /\ n_frames' = n_frames + 1
    /\ UNCHANGED n_missed
    /\ KeepProducers
\* dpif_netdev_execute of a USERSPACE action, up to the same test
ExecuteUserspace(t, f) ==
    /\ handles[t].open
    /\ thr[t].pc = "idle"
    /\ n_frames < MaxFrames
    /\ LET packet == Packet(n_frames + 1, f)
           k == dpif_netdev_flow_from_nlattrs(QKey)
       IN /\ packet.size >= ETH_HEADER_LEN
          /\ packet.size <= UINT16_MAX
          /\ k.error = "OK"
          /\ OutputUserspaceTest(t, DPIF_UC_ACTION,
                                 Upcall(DPIF_UC_ACTION,
                                        odp_flow_key_from_flow(
                                            k.flow, k.flow.in_port),
                                        "ud", packet))
    /\ n_frames' = n_frames + 1
    /\ UNCHANGED <<flow_table, n_hit, n_missed>>
    /\ KeepProducers
\* q->head++: the load of q->head, which is the slot taken
PushLoad(t) ==
    /\ thr[t].pc = "push_load"
    /\ thr' = [thr EXCEPT ![t].pc = "push_bump",
                          ![t].head = queues[thr[t].queue_no].head]
    /\ UNCHANGED <<queues, pipe, flow_table, n_hit, n_missed, n_lost,
                   n_frames, last>>
    /\ KeepProducers
\* q->head++: the store of the loaded value plus one
PushBump(t) ==
    /\ thr[t].pc = "push_bump"
    /\ queues' = [queues EXCEPT ![thr[t].queue_no].head = U32Inc(thr[t].head)]
    /\ thr' = [thr EXCEPT ![t].pc = "push_write"]
    /\ UNCHANGED <<pipe, flow_table, n_hit, n_missed, n_lost, n_frames, last>>
    /\ KeepProducers
\* write(dp->pipe[1], &c, 1) under table_mutex; return 0
PushReturn(t) ==
    /\ thr[t].pc = "push_signal"
    /\ pipe' = WritePipe(pipe)
    /\ thr' = [thr EXCEPT ![t] = Idle]
    /\ last' = [Last(ProducerOp(t), "OK") EXCEPT
                   !.upcall = thr[t].upcall,
                   !.pushes = <<PushResult(thr[t].queue_no, "OK")>>]
    /\ UNCHANGED <<queues, flow_table, n_hit, n_missed, n_lost, n_frames>>
    /\ KeepProducers

InitProducers ==
    /\ InitDp(HitsDp)
    /\ s3 = S3Off
    /\ InitRest

NextProducers ==
    \/ /\ thr[1].pc = "idle"
       /\ FlowPut(1, QKey, {"CREATE"}, <<Userspace("ud")>>, FALSE)
    \/ \E f \in OutputFrames : PortInputMiss(2, 2, f)
    \/ \E f \in OutputFrames : HitUserspace(2, 2, f)
    \/ \E f \in OutputFrames : ExecuteUserspace(1, f)
    \/ \E t \in Threads : PushLoad(t)
    \/ \E t \in Threads : PushBump(t)
    \/ \E t \in Threads : PushWrite(t)
    \/ \E t \in Threads : PushReturn(t)
    \* a head stored late can fall behind tail, and the queue then reads
    \* as 2^32 - 1 records long: recv is followed for MaxFrames records
    \/ /\ thr[1].pc = "idle"
       /\ \A i \in Queues : U32Less(queues[i].tail, U32(0, MaxFrames))
       /\ Recv(1)

SpecProducers == InitProducers /\ [][NextProducers]_vars

\* the producers that hold a slot of a queue they have not yet filled
Producing(queue_no) ==
    { t \in Threads : /\ thr[t].pc \in {"push_bump", "push_write"}
                      /\ thr[t].queue_no = queue_no }
\* C33: every queue has one producer at a time: the pushes of the worker
\* and those of a control thread's execute never hold the same slot of a
\* queue together, every push that returned 0 has moved head by one, and
\* head is never more than MAX_QUEUE_LEN beyond tail.
C33_SingleProducer ==
    /\ \A i \in Queues : \A t, u \in Producing(i) :
           t # u => thr[t].head # thr[u].head
    /\ \A i \in Queues : LET d == QueueLen(queues[i])
                         IN d.hi = 0 /\ d.lo <= MAX_QUEUE_LEN
    /\ (\A t \in Threads : thr[t].pc = "idle") =>
           n_frames = queues[DPIF_UC_MISS].head.lo
                      + queues[DPIF_UC_ACTION].head.lo + n_lost
\* Both pushes returned 0 and the ACTION queue holds one record.
C33_Witness ==
    /\ \A t \in Threads : thr[t].pc = "idle"
    /\ last.op \in {"port_input", "execute"}
    /\ last.pushes = <<PushResult(DPIF_UC_ACTION, "OK")>>
    /\ n_frames = 2 /\ n_lost = 0 /\ n_hit = 1
    /\ queues[DPIF_UC_MISS].head = U32Zero
    /\ queues[DPIF_UC_ACTION].head = U32(0, 1)

(***************************************************************************)
(* SpecFlowUsers: the users of a flow entry in the THREADED build.  The    *)
(* I/O worker (thread 2) looks a frame's flow up, and with table_mutex     *)
(* released updates the entry's counters and runs its actions; a control   *)
(* thread (thread 1) creates the flow, reads and zeroes its counters with  *)
(* flow_put(MODIFY | ZERO_STATS), reads them with flow_get and deletes the *)
(* flow.  Each handler runs in the steps that its critical sections and    *)
(* its unlocked accesses to the entry make.  A thread's pointer to an      *)
(* entry is thr[t].flow, which reads DANGLING once the entry is freed.     *)
(***************************************************************************)
DANGLING == -1
UserKey == FlowKey(1, "h1")
UserPut == Put(QKey, {"MODIFY", "ZERO_STATS"}, <<Output(1)>>, TRUE)
\* dp_netdev_port_input up to the return of dp_netdev_lookup_flow with an
\* entry
HitLookup(t, i, f) ==
    /\ registered
    /\ thr[t].pc = "idle"
    /\ n_frames < MaxFrames
    /\ LET packet == Packet(n_frames + 1, f)
           key == flow_extract(packet, port_list[i].port_no)
       IN /\ packet.size >= ETH_HEADER_LEN
          /\ dp_netdev_lookup_flow(flow_table, key) # NullFlow
          /\ thr' = [thr EXCEPT ![t] =
                       [Idle EXCEPT !.pc = "hit", !.key = key,
                                    !.flow = Len(flow_table[key]),
                                    !.packet = packet]]
    /\ n_frames' = n_frames + 1
    /\ UNCHANGED <<dpvars, now, grevars, regvars, n_port_ops, last, s3>>
\* dp_netdev_flow_used: the loads of flow->packet_count, byte_count and
\* tcp_flags
HitLoad(t) ==
    /\ thr[t].pc = "hit"
    /\ thr[t].flow # DANGLING
    /\ thr' = [thr EXCEPT
                  ![t].pc = "used",
                  ![t].flow_stats =
                      get_dpif_flow_stats(
                          FlowAt(flow_table, thr[t].key, thr[t].flow))]
    /\ UNCHANGED <<dpvars, now, grevars, regvars, n_frames, n_port_ops, last, s3>>
\* dp_netdev_flow_used: the stores of the counters; then
\* dp_netdev_execute_actions on flow->actions and dp->n_hit++
HitStore(t) ==
    /\ thr[t].pc = "used"
    /\ thr[t].flow # DANGLING
    /\ LET flow == FlowAt(flow_table, thr[t].key, thr[t].flow)
           read == [flow EXCEPT
                       !.packet_count = thr[t].flow_stats.n_packets,
                       !.byte_count = thr[t].flow_stats.n_bytes,
                       !.tcp_flags = thr[t].flow_stats.tcp_flags]
           d1 == [Dp EXCEPT !.flow_table =
                     SetFlowAt(@, thr[t].key, thr[t].flow,
                               dp_netdev_flow_used(read, thr[t].packet,
                                                   now))]
           st == dp_netdev_execute_actions(PacketState(d1), d1.ports,
                                           thr[t].packet, thr[t].key,
                                           flow.actions)
       IN /\ SetDp([WithPacketState(d1, st) EXCEPT !.n_hit = @ + 1])
          /\ last' = [Last("port_input", "OK") EXCEPT
                         !.packet = thr[t].packet, !.pushes = st.pushes]
    /\ thr' = [thr EXCEPT ![t] = Idle]
    /\ UNCHANGED <<now, grevars, regvars, n_frames, n_port_ops, s3>>
\* The same statements through a pointer to freed memory.  What they read
\* and write is not the program's to say: the worker goes on, having
\* counted the hit in memory that is no flow's (or another object's), or
\* the process stops.
HitFreed(t) ==
    /\ thr[t].pc \in {"hit", "used"}
    /\ thr[t].flow = DANGLING
    /\ \E outcome \in {"freed", "SIGSEGV"} :
          /\ n_hit' = IF outcome = "freed" THEN n_hit + 1 ELSE n_hit
          /\ last' = [Last("port_input", outcome) EXCEPT
                         !.packet = thr[t].packet]
    /\ thr' = [thr EXCEPT ![t] = Idle]
    /\ UNCHANGED <<registered, dp_class, open_cnt, destroyed, handles, ports,
                   port_list, serial, flow_table, queues, pipe, n_missed,
                   n_lost, tx, now, grevars, regvars, n_frames, n_port_ops, s3>>
\* the MODIFY branch of flow_put: set_flow_actions, then
\* get_dpif_flow_stats(flow, put->stats)
ModifyStats(t) ==
    /\ thr[t].pc = "realloc"
    /\ LET flow == set_flow_actions(
                       FlowAt(flow_table, thr[t].key, thr[t].flow),
                       thr[t].put.actions)
       IN /\ flow_table' = SetFlowAt(flow_table, thr[t].key, thr[t].flow,
                                     flow)
          /\ thr' = [thr EXCEPT
                        ![t].pc = "clear",
                        ![t].flow_stats =
                            IF thr[t].put.want_stats
                            THEN get_dpif_flow_stats(flow) ELSE NoStats]
    /\ UNCHANGED last
    /\ KeepFlowThreads
\* if (put->flags & DPIF_FP_ZERO_STATS) clear_stats(flow); return 0
ModifyClear(t) ==
    /\ thr[t].pc = "clear"
    /\ flow_table' =
          IF "ZERO_STATS" \in thr[t].put.flags
          THEN SetFlowAt(flow_table, thr[t].key, thr[t].flow,
                         clear_stats(FlowAt(flow_table, thr[t].key,
                                            thr[t].flow)))
          ELSE flow_table
    /\ thr' = [thr EXCEPT ![t] = Idle]
    /\ last' = [Last("flow_put", "OK") EXCEPT
                   !.key = thr[t].put.key, !.flags = thr[t].put.flags,
                   !.actions = thr[t].put.actions,
                   !.want_stats = thr[t].put.want_stats,
                   !.stats = thr[t].flow_stats]
    /\ KeepFlowThreads
\* dpif_netdev_flow_del up to the return of dp_netdev_lookup_flow
DelLookup(t, nlkey) ==
    /\ handles[1].open
    /\ thr[t].pc = "idle"
    /\ LET k == dpif_netdev_flow_from_nlattrs(nlkey)
           flow == dp_netdev_lookup_flow(flow_table, k.flow)
       IN IF k.error # "OK" \/ flow = NullFlow
          THEN /\ last' = [Last("flow_del", IF k.error # "OK" THEN k.error
                                            ELSE "ENOENT") EXCEPT
                              !.key = nlkey, !.want_stats = TRUE]
               /\ UNCHANGED thr
          ELSE /\ thr' = [thr EXCEPT ![t] =
                            [Idle EXCEPT !.pc = "del_stats", !.key = k.flow,
                                         !.flow = Len(flow_table[k.flow])]]
               /\ UNCHANGED last
    /\ UNCHANGED flow_table
    /\ KeepFlowThreads
\* get_dpif_flow_stats(flow, del->stats)
DelStats(t) ==
    /\ thr[t].pc = "del_stats"
    /\ thr' = [thr EXCEPT
                  ![t].pc = "del_free",
                  ![t].flow_stats =
                      get_dpif_flow_stats(
                          FlowAt(flow_table, thr[t].key, thr[t].flow))]
    /\ UNCHANGED <<flow_table, last>>
    /\ KeepFlowThreads
\* dp_netdev_free_flow: hmap_remove under table_mutex, free(flow->actions),
\* free(flow); return 0.  The pointers that lookups have returned to other
\* threads now lead to freed memory.
DelFree(t) ==
    /\ thr[t].pc = "del_free"
    /\ flow_table' = dp_netdev_free_flow(Dp, thr[t].key).flow_table
    /\ thr' = [u \in Threads |->
                  IF u = t THEN Idle
                  ELSE IF thr[u].pc \in {"hit", "used"}
                          /\ thr[u].key = thr[t].key
                       THEN [thr[u] EXCEPT !.flow = DANGLING]
                       ELSE thr[u]]
    /\ last' = [Last("flow_del", "OK") EXCEPT
                   !.key = odp_flow_key_from_flow(thr[t].key,
                                                  thr[t].key.in_port),
                   !.want_stats = TRUE, !.stats = thr[t].flow_stats]
    /\ KeepFlowThreads

InitFlowUsers ==
    /\ InitDp(HitsDp)
    /\ s3 = S3Off
    /\ InitRest

NextFlowUsers ==
    \/ /\ thr[1].pc = "idle"
       /\ FlowPut(1, QKey, {"CREATE"}, <<Output(1)>>, FALSE)
    \/ FlowPutLookup(1, UserPut)
    \/ ModifyStats(1)
    \/ ModifyClear(1)
    \/ thr[1].pc = "idle" /\ FlowGet(1, QKey)
    \/ DelLookup(1, QKey)
    \/ DelStats(1)
    \/ DelFree(1)
    \/ \E f \in OutputFrames : HitLookup(2, 2, f)
    \/ HitLoad(2)
    \/ HitStore(2)
    \/ HitFreed(2)

SpecFlowUsers == InitFlowUsers /\ [][NextFlowUsers]_vars

\* the packets and bytes that the entries of the table have counted
CountedPackets ==
    IF flow_table[UserKey] = <<>> THEN 0
    ELSE Head(flow_table[UserKey]).packet_count
CountedBytes ==
    IF flow_table[UserKey] = <<>> THEN 0
    ELSE Head(flow_table[UserKey]).byte_count
\* a flow_put(ZERO_STATS) or a flow_del returns the counters it took
Reports(t) == thr[t].pc \in {"clear", "del_free"} /\ thr'[t].pc = "idle"
\* C32: every hit is accounted for: a hit adds one packet and the frame's
\* bytes to the counters of its flow, and a flow_put(MODIFY | ZERO_STATS)
\* or a flow_del that runs beside the hits reports exactly what it takes
\* out of the counters; flow_get takes nothing.  No increment is lost or
\* counted twice.
C32_HitsAccounted ==
    [][LET hits == n_hit' - n_hit
           taken == IF Reports(1) THEN last'.stats
                    ELSE Stats(0, 0, 0, 0)
       IN /\ CountedPackets' + taken.n_packets = CountedPackets + hits
          /\ CountedBytes' + taken.n_bytes =
                 CountedBytes + hits * thr[2].packet.size]_vars
\* A frame hit the flow while flow_put(MODIFY | ZERO_STATS) was between its
\* two statements: the put reported no packet and no packet is counted.
C32_Witness ==
    /\ last.op = "flow_put" /\ last.ret = "OK"
    /\ "ZERO_STATS" \in last.flags
    /\ last.stats.n_packets = 0
    /\ n_hit = 1
    /\ flow_table[UserKey] # <<>>
    /\ CountedPackets = 0
    /\ \A t \in Threads : thr[t].pc = "idle"

\* C35: no thread uses an entry of the flow table after it was freed: the
\* worker, which holds the entry dp_netdev_lookup_flow returned with
\* table_mutex released, and the control threads in flow_get, flow_put and
\* flow_del never hold a pointer to a freed entry.
C35_NoUseAfterFree ==
    /\ \A t \in Threads :
           thr[t].pc \in {"hit", "used", "realloc", "clear", "del_stats",
                          "del_free"} => thr[t].flow # DANGLING
    /\ last.op = "port_input" => last.ret = "OK"
\* The worker has run dp_netdev_flow_used and the actions of an entry that
\* flow_del had freed.
C35_Witness ==
    /\ last.op = "port_input" /\ last.ret = "freed"
    /\ flow_table[UserKey] = <<>>
    /\ n_hit > 0
    /\ \A t \in Threads : thr[t].pc = "idle"

(***************************************************************************)
(* SpecRegistry: the I/O worker (thread 2) and a control thread (thread 1) *)
(* over the datapaths of dp_netdevs in the THREADED build.  The control    *)
(* thread opens, destroys and closes datapaths, adds and deletes ports and *)
(* calls recv; dp_netdev_free runs in the steps its two critical sections  *)
(* make.  The worker walks dp_netdevs twice in each iteration of its loop, *)
(* with no lock on the registry: it takes a datapath from the shash, locks *)
(* its port_list_mutex, walks the port list and unlocks.  A thread waits   *)
(* for a mutex by not taking its step until the mutex is free.             *)
(***************************************************************************)
KeepRegistry == UNCHANGED <<dpvars, now, grevars, n_frames, s3>>
\* SHASH_FOR_EACH: the node that follows node n, 0 at the end
NextNode(n) ==
    LET rest == { d \in dp_netdevs : d > n }
    IN IF rest = {} THEN 0
       ELSE CHOOSE d \in rest : \A e \in rest : d <= e
\* dpif_netdev_open: create_dp_netdev with its internal port and
\* shash_add, or one more reference to a registered datapath
RegOpen(t, d) ==
    /\ thr[t].pc = "idle"
    /\ \/ /\ dp_objs[d].state = "none"
          /\ dp_objs' = [dp_objs EXCEPT ![d] =
                            [NoObj EXCEPT !.state = "live",
                                          !.port_list = <<RegPort(0, 0)>>,
                                          !.open_cnt = 1]]
          /\ dp_netdevs' = dp_netdevs \cup {d}
       \/ /\ d \in dp_netdevs
          /\ dp_objs[d].open_cnt = 0
          /\ dp_objs' = [dp_objs EXCEPT ![d].open_cnt = 1]
          /\ UNCHANGED dp_netdevs
    /\ last' = [Last("open", "OK") EXCEPT !.handle = d]
    /\ UNCHANGED <<thr, n_port_ops>>
    /\ KeepRegistry
HasHandle(d) == d \in dp_netdevs /\ dp_objs[d].open_cnt > 0
\* choose_port: the lowest free port number
FreePortNos(d) ==
    (1 .. MAX_PORTS - 1)
        \ { dp_objs[d].port_list[i].port_no :
              i \in 1 .. Len(dp_objs[d].port_list) }
\* do_add_port: port->poll_fd = NULL, list_push_back under port_list_mutex
RegPortAdd(t, d) ==
    /\ thr[t].pc = "idle"
    /\ HasHandle(d)
    /\ n_port_ops < MaxPortOps
    /\ FreePortNos(d) # {}
    /\ dp_objs[d].port_list_mutex = 0
    /\ LET port_no == CHOOSE n \in FreePortNos(d) :
                          \A m \in FreePortNos(d) : n <= m
       IN /\ dp_objs' = [dp_objs EXCEPT ![d].port_list =
                            Append(@, RegPort(port_no, 0))]
          /\ last' = [Last("port_add", "OK") EXCEPT
                         !.handle = d, !.port_no = port_no]
    /\ n_port_ops' = n_port_ops + 1
    /\ UNCHANGED <<thr, dp_netdevs>>
    /\ KeepRegistry
\* dpif_netdev_port_del: do_del_port under port_list_mutex
RegPortDel(t, d, i) ==
    /\ thr[t].pc = "idle"
    /\ HasHandle(d)
    /\ i \in 2 .. Len(dp_objs[d].port_list)
    /\ dp_objs[d].port_list_mutex = 0
    /\ dp_objs' = [dp_objs EXCEPT ![d].port_list =
                      SubSeq(@, 1, i - 1) \o SubSeq(@, i + 1, Len(@))]
    /\ last' = [Last("port_del", "OK") EXCEPT
                   !.handle = d,
                   !.port_no = dp_objs[d].port_list[i].port_no]
    /\ UNCHANGED <<thr, dp_netdevs, n_port_ops>>
    /\ KeepRegistry
\* dpif_netdev_destroy
RegDestroy(t, d) ==
    /\ thr[t].pc = "idle"
    /\ HasHandle(d)
    /\ ~dp_objs[d].destroyed
    /\ dp_objs' = [dp_objs EXCEPT ![d].destroyed = TRUE]
    /\ last' = [Last("destroy", "OK") EXCEPT !.handle = d]
    /\ UNCHANGED <<thr, dp_netdevs, n_port_ops>>
    /\ KeepRegistry
\* dpif_netdev_close: the last reference to a destroyed datapath takes it
\* out of dp_netdevs and enters dp_netdev_free
RegClose(t, d) ==
    /\ thr[t].pc = "idle"
    /\ HasHandle(d)
    /\ dp_objs' = [dp_objs EXCEPT ![d].open_cnt = @ - 1]
    /\ IF dp_objs[d].open_cnt = 1 /\ dp_objs[d].destroyed
       THEN /\ dp_netdevs' = dp_netdevs \ {d}
            /\ thr' = [thr EXCEPT ![t] =
                         [Idle EXCEPT !.pc = "free_ports", !.node = d]]
            /\ UNCHANGED last
       ELSE /\ last' = [Last("close", "OK") EXCEPT !.handle = d]
            /\ UNCHANGED <<thr, dp_netdevs>>
    /\ UNCHANGED n_port_ops
    /\ KeepRegistry
\* dp_netdev_free: do_del_port of every port under port_list_mutex
RegFreePorts(t) ==
    /\ thr[t].pc = "free_ports"
    /\ dp_objs[thr[t].node].port_list_mutex = 0
    /\ dp_objs' = [dp_objs EXCEPT ![thr[t].node].port_list = <<>>]
    /\ thr' = [thr EXCEPT ![t].pc = "free_table"]
    /\ UNCHANGED <<last, dp_netdevs, n_port_ops>>
    /\ KeepRegistry
\* dp_netdev_free: the queues are purged under table_mutex; then
\* pthread_mutex_destroy of both mutexes and free(dp), whoever holds them
RegFreeTable(t) ==
    /\ thr[t].pc = "free_table"
    /\ dp_objs[thr[t].node].table_mutex = 0
    /\ dp_objs' = [dp_objs EXCEPT ![thr[t].node].state = "freed"]
    /\ thr' = [thr EXCEPT ![t] = Idle]
    /\ last' = [Last("close", "OK") EXCEPT !.handle = thr[t].node]
    /\ UNCHANGED <<dp_netdevs, n_port_ops>>
    /\ KeepRegistry
\* dpif_netdev_recv: pthread_mutex_lock(&dp->table_mutex)
RegRecvLock(t, d) ==
    /\ thr[t].pc = "idle"
    /\ HasHandle(d)
    /\ dp_objs[d].table_mutex = 0
    /\ dp_objs' = [dp_objs EXCEPT ![d].table_mutex = t]
    /\ thr' = [thr EXCEPT ![t] = [Idle EXCEPT !.pc = "recv", !.node = d]]
    /\ UNCHANGED <<last, dp_netdevs, n_port_ops>>
    /\ KeepRegistry
\* dpif_netdev_recv: the queues are empty; unlock and return EAGAIN
RegRecvUnlock(t) ==
    /\ thr[t].pc = "recv"
    /\ dp_objs' = [dp_objs EXCEPT ![thr[t].node].table_mutex = 0]
    /\ thr' = [thr EXCEPT ![t] = Idle]
    /\ last' = [Last("recv", "EAGAIN") EXCEPT !.handle = thr[t].node]
    /\ UNCHANGED <<dp_netdevs, n_port_ops>>
    /\ KeepRegistry

\* SHASH_FOR_EACH of the build phase: dp = node->data, or poll at the end
RegBuildNext(t) ==
    /\ thr[t].pc \in {"idle", "build"}
    /\ LET w == IF thr[t].pc = "idle" THEN Idle ELSE thr[t]
           d == NextNode(w.node)
       IN thr' = [thr EXCEPT ![t] =
                     [w EXCEPT !.pc = IF d = 0 THEN "poll" ELSE "build_lock",
                               !.node = d]]
    /\ UNCHANGED <<last, regvars, n_port_ops>>
    /\ KeepRegistry
\* pthread_mutex_lock(&dp->port_list_mutex).  On a datapath that was freed
\* the call works on a destroyed mutex in freed memory: it returns at
\* once, or never, or the process stops.
RegLock(t) ==
    /\ thr[t].pc \in {"build_lock", "serve_lock"}
    /\ LET d == thr[t].node
           held == IF thr[t].pc = "build_lock" THEN "build_fill"
                   ELSE "serve_fill"
       IN IF dp_objs[d].state = "freed"
          THEN \E outcome \in {"returns", "blocks", "SIGSEGV"} :
                  /\ thr' = [thr EXCEPT ![t].pc =
                                IF outcome = "returns" THEN held
                                ELSE IF outcome = "blocks" THEN "stuck"
                                ELSE "dead"]
                  /\ last' = [Last("worker_lock", outcome) EXCEPT
                                 !.handle = d]
                  /\ UNCHANGED dp_objs
          ELSE /\ dp_objs[d].port_list_mutex = 0
               /\ dp_objs' = [dp_objs EXCEPT ![d].port_list_mutex = t]
               /\ thr' = [thr EXCEPT ![t].pc = held]
               /\ UNCHANGED last
    /\ UNCHANGED <<dp_netdevs, n_port_ops>>
    /\ KeepRegistry
\* the ports the worker finds in the list of its datapath
PortsOf(d) ==
    IF dp_objs[d].state = "freed" THEN <<>> ELSE dp_objs[d].port_list
\* LIST_FOR_EACH of the build phase: fds[n_fds] is written, port->poll_fd
\* set and n_fds incremented for every port; unlock.  Nothing compares
\* n_fds with the size of fds.
RegBuildFill(t) ==
    /\ thr[t].pc = "build_fill"
    /\ LET d == thr[t].node
           n_fds == Len(thr[t].fds)
           entries == [i \in 1 .. Len(PortsOf(d)) |->
                          [dp |-> d, port_no |-> PortsOf(d)[i].port_no]]
       IN /\ dp_objs' =
                IF dp_objs[d].state = "freed" THEN dp_objs
                ELSE [dp_objs EXCEPT
                         ![d].port_list =
                             [i \in 1 .. Len(@) |->
                                 RegPort(@[i].port_no, n_fds + i)],
                         ![d].port_list_mutex = 0]
          /\ thr' = [thr EXCEPT ![t].pc = "build",
                                ![t].fds = @ \o entries,
                                ![t].stable = @ \cup {d}]
          /\ last' = [Last("worker_build",
                           IF n_fds + Len(entries) > MAX_PORTS
                           THEN "overflow" ELSE "OK") EXCEPT !.handle = d]
    /\ UNCHANGED <<dp_netdevs, n_port_ops>>
    /\ KeepRegistry
\* poll(fds, n_fds, 2000) marks no entry or every entry
RegPoll(t, revents) ==
    /\ thr[t].pc = "poll"
    /\ thr' = [thr EXCEPT ![t].pc = "serve", ![t].revents = revents,
                          ![t].node = 0, ![t].served = {}]
    /\ last' = Last("worker_poll", "OK")
    /\ UNCHANGED <<regvars, n_port_ops>>
    /\ KeepRegistry
\* SHASH_FOR_EACH of the dispatch phase, or the next iteration of for (;;)
RegServeNext(t) ==
    /\ thr[t].pc = "serve"
    /\ LET d == NextNode(thr[t].node)
       IN IF d = 0
          THEN /\ thr' = [thr EXCEPT ![t] = Idle]
               /\ last' = [Last("worker_next", "OK") EXCEPT
                              !.seen = thr[t].served]
          ELSE /\ thr' = [thr EXCEPT ![t].pc = "serve_lock", ![t].node = d]
               /\ UNCHANGED last
    /\ UNCHANGED <<regvars, n_port_ops>>
    /\ KeepRegistry
\* the ports of the list whose poll_fd is not NULL and marked POLLIN
Marked(t) ==
    { i \in 1 .. Len(PortsOf(thr[t].node)) :
        /\ PortsOf(thr[t].node)[i].poll_fd # 0
        /\ PortsOf(thr[t].node)[i].poll_fd \in thr[t].revents }
\* LIST_FOR_EACH of the dispatch phase: netdev_dispatch on the marked
\* ports, whose dp_netdev_port_input takes table_mutex with
\* port_list_mutex held; unlock
RegServeDispatch(t) ==
    /\ thr[t].pc = "serve_fill"
    /\ Marked(t) # {} => dp_objs[thr[t].node].table_mutex = 0
    /\ dp_objs' = IF dp_objs[thr[t].node].state = "freed" THEN dp_objs
                  ELSE [dp_objs EXCEPT ![thr[t].node].port_list_mutex = 0]
    /\ thr' = [thr EXCEPT ![t].pc = "serve",
                          ![t].served = @ \cup {thr[t].node}]
    /\ last' = [Last("worker_dispatch", "OK") EXCEPT
                   !.handle = thr[t].node]
    /\ UNCHANGED <<dp_netdevs, n_port_ops>>
    /\ KeepRegistry
RegWorker(t) ==
    \/ RegBuildNext(t)
    \/ RegLock(t)
    \/ RegBuildFill(t)
    \/ \E revents \in {{}, 1 .. Len(thr[t].fds)} : RegPoll(t, revents)
    \/ RegServeNext(t)
    \/ RegServeDispatch(t)
RegControl(t) ==
    \/ \E d \in DpIds : RegOpen(t, d)
    \/ \E d \in DpIds : RegPortAdd(t, d)
    \/ \E d \in DpIds, i \in 2 .. MAX_PORTS : RegPortDel(t, d, i)
    \/ \E d \in DpIds : RegDestroy(t, d)
    \/ \E d \in DpIds : RegClose(t, d)
    \/ RegFreePorts(t)
    \/ RegFreeTable(t)
    \/ \E d \in DpIds : RegRecvLock(t, d)
    \/ RegRecvUnlock(t)

InitRegistryDp ==
    /\ InitDp(NoDp)
    /\ s3 = S3Off
    /\ InitRest

NextRegistry ==
    \/ RegControl(1)
    \/ RegWorker(2)

SpecRegistry == InitRegistryDp /\ [][NextRegistry]_vars

\* the datapath the worker has taken from dp_netdevs and is working on
Visiting(t) ==
    thr[t].pc \in {"build_lock", "build_fill", "serve_lock", "serve_fill"}
\* C31: the worker works on one set of datapaths in each iteration, and
\* only on datapaths that are registered and not freed: whatever open and
\* close do meanwhile, the datapath it locks, walks or dispatches on is in
\* dp_netdevs and live, and the dispatch phase visits the datapaths the
\* build phase visited.
C31_LiveDatapaths ==
    /\ Visiting(2) => /\ thr[2].node \in dp_netdevs
                      /\ dp_objs[thr[2].node].state = "live"
    /\ thr[2].pc = "serve" /\ NextNode(thr[2].node) = 0 =>
           thr[2].served = thr[2].stable
\* The worker walks the port list of a datapath that close has freed.
C31_Witness ==
    /\ thr[2].pc \in {"build_fill", "serve_fill"}
    /\ dp_objs[thr[2].node].state = "freed"
    /\ last.op = "worker_lock" /\ last.ret = "returns"

\* C37: the worker never writes or reads fds at an index >= MAX_PORTS: the
\* ports of all the datapaths of an iteration fit in the array, and in the
\* dispatch phase a poll_fd that is not NULL leads to the entry the build
\* phase of the same iteration wrote for that port.
C37_FdsInBounds ==
    /\ Len(thr[2].fds) <= MAX_PORTS
    /\ thr[2].pc = "serve_fill" =>
           \A i \in 1 .. Len(PortsOf(thr[2].node)) :
               LET port == PortsOf(thr[2].node)[i]
               IN port.poll_fd # 0 =>
                      /\ port.poll_fd <= Len(thr[2].fds)
                      /\ thr[2].fds[port.poll_fd] =
                             [dp |-> thr[2].node, port_no |-> port.port_no]
\* Two datapaths with two ports each: the build phase has written four
\* entries and poll is given n_fds = 4.
C37_Witness ==
    /\ thr[2].pc = "poll"
    /\ Len(thr[2].fds) > MAX_PORTS
    /\ last.op = "worker_build" /\ last.ret = "overflow"
    /\ \A d \in DpIds : dp_objs[d].state = "live"

(***************************************************************************)
(* SpecLocks: the threads of SpecRegistry on datapaths of one port, with   *)
(* the scheduling the mutexes are meant to give: a thread that can run     *)
(* does run, and a thread for which a mutex is free again and again does   *)
(* get it.                                                                 *)
(***************************************************************************)
LockControl(t) ==
    \/ \E d \in DpIds : RegOpen(t, d)
    \/ \E d \in DpIds : RegDestroy(t, d)
    \/ \E d \in DpIds : RegClose(t, d)
    \/ RegFreePorts(t)
    \/ RegFreeTable(t)
    \/ \E d \in DpIds : RegRecvLock(t, d)
    \/ RegRecvUnlock(t)
NextLocks ==
    \/ LockControl(1)
    \/ RegWorker(2)
SpecLocks ==
    /\ InitRegistryDp
    /\ [][NextLocks]_vars
    /\ SF_vars(RegWorker(2))
    /\ SF_vars(RegFreePorts(1))
    /\ SF_vars(RegFreeTable(1))
    /\ WF_vars(RegRecvUnlock(1))

\* the mutexes of live datapaths that a thread holds
HeldBy(t) ==
    { <<d, "port_list_mutex">> :
        d \in { e \in DpIds : /\ dp_objs[e].state = "live"
                              /\ dp_objs[e].port_list_mutex = t } }
    \cup { <<d, "table_mutex">> :
             d \in { e \in DpIds : /\ dp_objs[e].state = "live"
                                   /\ dp_objs[e].table_mutex = t } }
\* the mutex a thread is about to lock, or is blocked on
Wants(t) ==
    IF thr[t].pc \in {"build_lock", "serve_lock", "free_ports", "stuck"}
    THEN {<<thr[t].node, "port_list_mutex">>}
    ELSE IF thr[t].pc = "free_table"
            \/ (thr[t].pc = "serve_fill" /\ Marked(t) # {})
         THEN {<<thr[t].node, "table_mutex">>}
         ELSE {}
\* the lock discipline: port_list_mutex is never asked for with a
\* table_mutex held, no thread asks for a mutex it holds, and a thread
\* that is in no function holds none
LockDiscipline ==
    \A t \in Threads :
        /\ thr[t].pc \in {"build_lock", "serve_lock", "free_ports"} =>
               \A m \in HeldBy(t) : m[2] # "table_mutex"
        /\ Wants(t) \cap HeldBy(t) = {}
        /\ thr[t].pc = "idle" => HeldBy(t) = {}
====
